---- MODULE Spec2Model ----
(***************************************************************************)
(* Aegis-Flow: the PQC handshake, the framed AEAD stream codec, the mTLS   *)
(* authenticator, the green-wait scheduler, the carbon router, the         *)
(* intensity cache and the lifecycle manager, as state machines.           *)
(*                                                                         *)
(* Each subsystem has its own specification over the shared variables:     *)
(*   SpecStream     EncryptedStream over an honest transport               *)
(*   SpecStreamAdv  EncryptedStream over a transport an adversary alters   *)
(*   SpecStreamInject  EncryptedStream over a transport to which an         *)
(*                  adversary adds bytes                                    *)
(*   SpecStreamEof  EncryptedStream over a transport that may end at any    *)
(*                  moment                                                  *)
(*   SpecHandshake  PqcHandshake and the SecureChannels it creates          *)
(*   SpecOneHandler one PqcHandshake taking both sides of its handshakes    *)
(*   SpecCipher     one Cipher used by concurrent threads                   *)
(*   SpecCipherWorn the same, the nonce counter of the Cipher at u64::MAX   *)
(*   SpecMtls       MtlsAuthenticator and the initiators of its connections *)
(*   SpecGreenWait  GreenWaitScheduler under concurrent callers             *)
(*   SpecGreenWaitFair  the same, with time passing and sweeps recurring    *)
(*   SpecGreenStale the same scheduler, the time of each write of an        *)
(*                  intensity kept                                          *)
(*   SpecGreenSweep process_ready_jobs on queues of several jobs            *)
(*   SpecRouter     CarbonRouter: registration, refresh, selection, weights *)
(*   SpecFetch      CarbonIntensityCache::get_or_fetch under concurrent     *)
(*                  callers                                                 *)
(*   SpecLifecycle  LifecycleManager: shutdown, connections, health status  *)
(*   SpecLifecycleFair  the same, with time passing and tasks scheduled     *)
(*   SpecShutdownSignal LifecycleManager and the tasks that hold receivers  *)
(*                  of its shutdown signal                                  *)
(*   SpecGuards     LifecycleManager with connections held by               *)
(*                  ConnectionGuards                                        *)
(*   SpecPqcServer  the connection tasks of PqcProxyServer and their peers  *)
(*   SpecPqcServerFair  the same, with the tasks scheduled                  *)
(* A specification leaves the variables of the other subsystems alone.     *)
(***************************************************************************)
EXTENDS Integers, Sequences, FiniteSets, TLC

VARIABLES
    \* ---- crates/crypto/src/stream.rs: one direction of a session ----
    wkey,             \* key of the writing EncryptedStream
    rkey,             \* key of the reading (peer) EncryptedStream
    write_buffer,     \* writer: encrypted bytes not yet accepted by the transport
    wire,             \* transport: bytes accepted from the writer, not yet read
    wire_eof,         \* transport: at its end once the bytes in it are read
    read_buffer,      \* reader: ciphertext read from the transport
    decrypted_buffer, \* reader: plaintext not yet served to the caller
    written,          \* history: plaintext accepted by poll_write, in order
    delivered,        \* history: plaintext served by poll_read, in order
    frame_lens,       \* history: frame_len of every frame poll_write emitted
    partials,         \* number of short transfers the transport has made
    wire_out,         \* number of bytes the reader has taken from the transport
    last_read,        \* result of the latest poll_read call
    adv,              \* history of the adversary: what it did to the wire
    limits,           \* the bounds of the run: [writes, partials, adv]
    \* ---- crates/crypto/src/tls.rs: a responder and an initiator ----
    channel_counter,  \* PqcHandshake::channel_counter of each of the two handlers
    inits,            \* what each server_init call returned: public key and state
    ciphertexts,      \* the ciphertexts client_complete returned, in order
    channels,         \* the SecureChannels created, in order
    inflight,         \* the encrypted messages on their way to the peer
    last_decrypt,     \* result of the latest SecureChannel::decrypt call
    \* ---- crates/crypto/src/cipher.rs: one Cipher shared by threads ----
    cipher,           \* the Cipher: [key, nonce_counter]
    enc_calls,        \* per thread: the encrypt call it is in, if any
    sealed,           \* history: the results of the encrypt calls, as they returned
    \* ---- crates/crypto/src/mtls.rs: one MtlsAuthenticator ----
    require_client_cert, \* MtlsConfig::require_client_cert
    connection_counter,  \* MtlsAuthenticator::connection_counter
    mtls_channel_counter,\* channel_counter of MtlsAuthenticator::pqc_handshake
    clients,          \* MtlsAuthenticator::clients: connection id -> record
    offered,          \* the public key accept_connection returned, per connection id
    initiator,        \* what the initiator of each connection derived
    completions,      \* number of complete_handshake calls made
    \* ---- crates/proxy/src/green_wait.rs: one GreenWaitScheduler ----
    config,           \* GreenWaitConfig: [enabled, max_queue_size]
    now,              \* the clock of Instant::now(), in seconds
    queue,            \* GreenWaitScheduler::queue: the DeferredJobs, in order
    queue_lock,       \* the task that holds the Mutex of the queue, or 0
    region_intensity, \* GreenWaitScheduler::region_intensity: region id -> value
    intensity_cache,  \* the CarbonIntensityCache: region id -> value
    calls,            \* per task: the call it is in and the locals of the call
    jobs_created,     \* number of DeferredJobs created
    submit_result,    \* history: job id -> the ScheduleResult submit returned
    returned,         \* history: ids of the jobs process_ready_jobs returned, in order
    \* ---- crates/proxy/src/carbon_router.rs: one CarbonRouter ----
    router_config,    \* CarbonRouterConfig: [threshold, max_intensity, carbon_weight]
    router_now,       \* the clock of chrono::Utc::now(), in units of time
    router_regions,   \* CarbonRouter::regions: the registered region ids, in order
    region_scores,    \* CarbonRouter::region_scores: region id -> RegionScore
    score_samples,    \* history: region id -> the sample its score was computed from
    router_cache,     \* the CarbonIntensityCache of the router: region id -> entry
    router_refresh,   \* the refresh_carbon_data call in progress, if any
    router_answer,    \* what the latest call on the router returned
    \* ---- crates/energy/src/cache.rs: one CarbonIntensityCache ----
    fetch_cache,      \* the entries of the cache: region id -> entry
    fetch_now,        \* the clock of chrono::Utc::now(), in units of time
    fetch_calls,      \* per task: the get_or_fetch call it is in, if any
    fetch_count,      \* history: region id -> number of times fetch_fn was invoked
    fetch_results,    \* history: what the get_or_fetch calls returned, in order
    \* ---- crates/proxy/src/lifecycle.rs: one LifecycleManager ----
    lc_status,        \* LifecycleManager::status
    shutting_down,    \* LifecycleManager::shutting_down
    active_connections, \* LifecycleManager::active_connections, 8 bytes big-endian
    drain_timeout,    \* LifecycleManager::drain_timeout, in polls of 100 ms
    lc_now,           \* the clock of Instant::now(), in polls of 100 ms
    lc_calls,         \* per task: the initiate_shutdown call it is in, if any
    shutdown_sends,   \* history: number of shutdown_tx.send(()) calls
    draining_sets,    \* history: number of set_status(Draining) calls of initiate_shutdown
    conn_calls,       \* history: number of connection_started and _finished calls
    lc_returns,       \* history: the initiate_shutdown calls that returned, in order
    receivers,        \* the ShutdownReceivers handed out by shutdown_receiver
    intensity_at,     \* history: region id -> the time its region_intensity was written
    guards,           \* the ConnectionGuards that are alive
    \* ---- crates/proxy/src/pqc_server.rs: the handshakes of one PqcProxyServer ----
    pqc_conns,        \* per connection: the task spawned for it
    pqc_peer,         \* per connection: what the peer has sent and whether it closed
    pqc_channel_counter \* channel_counter of PqcProxyServer::handshake

streamVars == <<wkey, rkey, write_buffer, wire, wire_eof, read_buffer,
                decrypted_buffer, written, delivered, frame_lens, partials,
                wire_out, last_read, adv, limits>>

handshakeVars == <<channel_counter, inits, ciphertexts, channels, inflight, last_decrypt>>

cipherVars == <<cipher, enc_calls, sealed>>

mtlsVars == <<require_client_cert, connection_counter, mtls_channel_counter, clients,
              offered, initiator, completions>>

greenVars == <<config, now, queue, queue_lock, region_intensity, intensity_cache,
               calls, jobs_created, submit_result, returned>>

routerVars == <<router_config, router_now, router_regions, region_scores, score_samples,
                router_cache, router_refresh, router_answer>>

fetchVars == <<fetch_cache, fetch_now, fetch_calls, fetch_count, fetch_results>>

lifecycleVars == <<lc_status, shutting_down, active_connections, drain_timeout, lc_now,
                   lc_calls, shutdown_sends, draining_sets, conn_calls, lc_returns>>

guardVars == <<guards>>

pqcVars == <<pqc_conns, pqc_peer, pqc_channel_counter>>

signalVars == <<receivers>>

historyVars == <<intensity_at>>

vars == <<streamVars, handshakeVars, cipherVars, mtlsVars, greenVars, routerVars, fetchVars,
          lifecycleVars, guardVars, pqcVars, signalVars, historyVars>>

\* what a step of one subsystem leaves alone: the other subsystems
StreamOthers == UNCHANGED <<handshakeVars, cipherVars, mtlsVars, greenVars, routerVars,
    fetchVars, lifecycleVars,
    guardVars, pqcVars, signalVars, historyVars>>

HandshakeOthers == UNCHANGED <<streamVars, cipherVars, mtlsVars, greenVars, routerVars,
    fetchVars, lifecycleVars,
    guardVars, pqcVars, signalVars, historyVars>>

CipherOthers == UNCHANGED <<streamVars, handshakeVars, mtlsVars, greenVars, routerVars,
    fetchVars, lifecycleVars,
    guardVars, pqcVars, signalVars, historyVars>>

MtlsOthers == UNCHANGED <<streamVars, handshakeVars, cipherVars, greenVars, routerVars,
    fetchVars, lifecycleVars,
    guardVars, pqcVars, signalVars, historyVars>>

GreenWaitOthers == UNCHANGED <<streamVars, handshakeVars, cipherVars, mtlsVars, routerVars,
    fetchVars, lifecycleVars,
    guardVars, pqcVars, signalVars, historyVars>>

RouterOthers == UNCHANGED <<streamVars, handshakeVars, cipherVars, mtlsVars, greenVars,
    fetchVars, lifecycleVars,
    guardVars, pqcVars, signalVars, historyVars>>

LifecycleOthers == UNCHANGED <<streamVars, handshakeVars, cipherVars, mtlsVars, greenVars,
    routerVars, fetchVars,
    guardVars, pqcVars, signalVars, historyVars>>

GuardOthers == UNCHANGED <<streamVars, handshakeVars, cipherVars, mtlsVars, greenVars,
    routerVars, fetchVars, pqcVars, signalVars, historyVars>>

PqcOthers == UNCHANGED <<streamVars, handshakeVars, cipherVars, mtlsVars, greenVars,
    routerVars, fetchVars, lifecycleVars, guardVars, signalVars, historyVars>>

SignalOthers == UNCHANGED <<streamVars, handshakeVars, cipherVars, mtlsVars, greenVars,
    routerVars, fetchVars, lifecycleVars, guardVars, pqcVars, historyVars>>

\* what a step of the scheduler that writes an intensity leaves alone
GreenWriteOthers == UNCHANGED <<streamVars, handshakeVars, cipherVars, mtlsVars, routerVars,
    fetchVars, lifecycleVars, guardVars, pqcVars, signalVars>>

FetchOthers == UNCHANGED <<streamVars, handshakeVars, cipherVars, mtlsVars, greenVars,
    routerVars, lifecycleVars,
    guardVars, pqcVars, signalVars, historyVars>>

(***************************************************************************)
(* Byte strings.  A byte string is kept run-length encoded, a sequence of  *)
(* runs [byte, cnt] with cnt > 0 and no two adjacent runs of the same      *)
(* byte, so that the 64 KiB sizes of the code are kept as they are.        *)
(* A byte is a record [t, v, f, k, nonce, ct]:                             *)
(*   t = "r"  a plain byte of value v                                      *)
(*   t = "c"  the AEAD encryption under key k of the plain byte v          *)
(*   t = "t"  a byte of the AEAD tag of (k, nonce, ct)                     *)
(* f = 1 marks a byte of kind "c" or "t" one bit of which was flipped.     *)
(***************************************************************************)
Raw(v) == [t |-> "r", v |-> v, f |-> 0, k |-> 0, nonce |-> <<>>, ct |-> <<>>]

CtByte(k, v) == [t |-> "c", v |-> v, f |-> 0, k |-> k, nonce |-> <<>>, ct |-> <<>>]

TagByte(k, nonce, ct) == [t |-> "t", v |-> 0, f |-> 0, k |-> k, nonce |-> nonce, ct |-> ct]

Run(b, n) == [byte |-> b, cnt |-> n]

Min(a, b) == IF a <= b THEN a ELSE b

Max(a, b) == IF a >= b THEN a ELSE b

RECURSIVE BLen(_)
BLen(s) == IF s = <<>> THEN 0 ELSE s[1].cnt + BLen(Tail(s))

RECURSIVE BNorm(_)
BNorm(s) ==
    IF s = <<>> THEN <<>>
    ELSE IF s[1].cnt = 0 THEN BNorm(Tail(s))
    ELSE LET rest == BNorm(Tail(s)) IN
         IF rest # <<>> /\ rest[1].byte = s[1].byte
         THEN <<Run(s[1].byte, s[1].cnt + rest[1].cnt)>> \o Tail(rest)
         ELSE <<s[1]>> \o rest

BCat(s, t) == BNorm(s \o t)

BRep(b, n) == IF n = 0 THEN <<>> ELSE <<Run(b, n)>>

RECURSIVE BTake(_, _)
BTake(s, n) ==
    IF n <= 0 \/ s = <<>> THEN <<>>
    ELSE IF s[1].cnt <= n THEN <<s[1]>> \o BTake(Tail(s), n - s[1].cnt)
    ELSE <<Run(s[1].byte, n)>>

RECURSIVE BDrop(_, _)
BDrop(s, n) ==
    IF n <= 0 \/ s = <<>> THEN s
    ELSE IF s[1].cnt <= n THEN BDrop(Tail(s), n - s[1].cnt)
    ELSE <<Run(s[1].byte, s[1].cnt - n)>> \o Tail(s)

\* bytes [from, to) of s, as the slice s[from..to] of the code
BSlice(s, from, to) == BTake(BDrop(s, from), to - from)

\* the byte at offset i (from 0) of s; i < BLen(s)
BByte(s, i) == BDrop(s, i)[1].byte

RECURSIVE BMap(_, _)
BMap(F(_), s) ==
    IF s = <<>> THEN <<>>
    ELSE BNorm(<<Run(F(s[1].byte), s[1].cnt)>> \o BMap(F, Tail(s)))

BIsPrefix(s, t) == BLen(s) <= BLen(t) /\ BTake(t, BLen(s)) = s

\* the numeric value of a byte: a ciphertext or tag byte is pseudo-random
ByteVal(b) ==
    IF b.t = "r" THEN b.v
    ELSE (b.v + 89 * b.k + 101 * b.f + (IF b.t = "t" THEN 57 ELSE 0)) % 256

\* one bit of a byte flipped in transit
Flip(b) ==
    IF b.t = "r" THEN [b EXCEPT !.v = IF b.v % 2 = 0 THEN b.v + 1 ELSE b.v - 1]
    ELSE [b EXCEPT !.f = 1 - b.f]

\* s with the byte at offset i flipped
BFlipAt(s, i) ==
    BCat(BTake(s, i), BCat(BRep(Flip(BByte(s, i)), 1), BDrop(s, i + 1)))

(***************************************************************************)
(* crates/crypto/src/stream.rs                                             *)
(***************************************************************************)
U32_SIZE == 4

NONCE_SIZE == 12

TAG_SIZE == 16

FRAME_OVERHEAD == U32_SIZE + NONCE_SIZE + 16

MAX_FRAME_SIZE == 64 * 1024

\* ---- bounds of the model ----
MaxWrites == 2          \* poll_write calls that are accepted

MaxPartial == 2         \* short transfers (partial writes, partial reads)

MaxAdv == 1             \* actions of the adversary

MaxAdvWrites == 2       \* accepted poll_write calls of a run with the adversary

MaxAdvPartial == 1      \* short transfers of a run with the adversary

Keys == {1}

\* the nonces the random source may produce (12 bytes each); the second
\* one begins with the big-endian bytes of 28
Nonces == { <<Run(Raw(7), 12)>>,
            <<Run(Raw(0), 3), Run(Raw(28), 1), Run(Raw(9), 8)>> }

\* the buffers a caller passes to poll_write in a run with the adversary
AdvWriteBufs == { <<Run(Raw(98), 3)>> }

\* the buffers a caller may pass to poll_write
WriteBufs == { <<Run(Raw(97), 1)>>,
               <<Run(Raw(98), MAX_FRAME_SIZE)>>,
               <<Run(Raw(97), MAX_FRAME_SIZE + 1)>> }

\* the sizes of a short transfer of the transport
ShortChunks == {1, 4, 17}

\* the transport transfers everything it is offered
All == 2 ^ 30

\* the capacities of the caller's ReadBuf
ReadCaps == {1, 2 * MAX_FRAME_SIZE}

\* aes_gcm: Aead::encrypt(nonce, plaintext) -> ciphertext || tag
AeadEncrypt(k, nonce, pt) ==
    LET Enc(b) == CtByte(k, b.v)
        ct == BMap(Enc, pt)
    IN  BCat(ct, BRep(TagByte(k, nonce, ct), TAG_SIZE))

\* aes_gcm: Aead::decrypt(nonce, ciphertext || tag) -> plaintext or Err
AeadDecrypt(k, nonce, payload) ==
    LET n == BLen(payload) - TAG_SIZE
        ct == BTake(payload, n)
        tag == BDrop(payload, n)
        Dec(b) == Raw(b.v)
    IN  IF n >= 0 /\ tag = BRep(TagByte(k, nonce, ct), TAG_SIZE)
        THEN [ok |-> TRUE, pt |-> BMap(Dec, ct)]
        ELSE [ok |-> FALSE, pt |-> <<>>]

\* BufMut::put_u32(frame_len as u32): four bytes, big-endian (no buffer of
\* the model reaches 2^32 bytes, where the cast would truncate)
PutU32(n) ==
    BNorm(<<Run(Raw((n \div 16777216) % 256), 1), Run(Raw((n \div 65536) % 256), 1),
            Run(Raw((n \div 256) % 256), 1), Run(Raw(n % 256), 1)>>)

\* u32::from_be_bytes of the first four bytes of s.  The integers of the
\* checker end at 2^31 - 1: a first byte above 127 is read as 127, which
\* leaves the value above every bound the code compares it with.
U32FromBe(s) ==
    Min(ByteVal(BByte(s, 0)), 127) * 16777216 + ByteVal(BByte(s, 1)) * 65536
        + ByteVal(BByte(s, 2)) * 256 + ByteVal(BByte(s, 3))

ReadResult(res, msg, frame_len) == [res |-> res, msg |-> msg, frame_len |-> frame_len]

\* poll_read_into as it would be over a transport that never reports its
\* end
InnerReadNoEof(w, sched) ==
    IF w = <<>> \/ sched = <<>> THEN -1
    ELSE Min(Head(sched), BLen(w))

\* poll_read_into: what one read of the transport gives for the schedule
\* sched of the transport: "Pending", or the number of bytes (0 at EOF)
InnerRead(w, sched) ==
    IF w = <<>> THEN (IF wire_eof THEN 0 ELSE -1)
    ELSE IF sched = <<>> THEN -1
    ELSE Min(Head(sched), BLen(w))

\* step 5 as it would be if the plaintext were kept whatever the tag says
DecryptFrameUnchecked(st, frame_len) ==
    LET rb1 == BDrop(st.rb, U32_SIZE)
        payload == BSlice(rb1, NONCE_SIZE, frame_len)
        Dec(b) == Raw(b.v)
    IN  [st EXCEPT !.db = BCat(st.db, BMap(Dec, BTake(payload, BLen(payload) - TAG_SIZE))),
                   !.rb = BDrop(rb1, frame_len),
                   !.res = ReadResult("", "", frame_len)]

\* the drain loop as it would be if a short write dropped the whole buffer
AdvanceAll(buf, n) == <<>>

\* step 5 of poll_read: the whole frame is in read_buffer.  The result has
\* res = "" when the loop goes on.
DecryptFrame(st, frame_len) ==
    LET rb1 == BDrop(st.rb, U32_SIZE)
        nonce == BTake(rb1, NONCE_SIZE)
        payload == BSlice(rb1, NONCE_SIZE, frame_len)
        d == AeadDecrypt(rkey, nonce, payload)
    IN  IF d.ok
        THEN [st EXCEPT !.db = BCat(st.db, d.pt),
                        !.rb = BDrop(rb1, frame_len),
                        !.res = ReadResult("", "", frame_len)]
        ELSE [st EXCEPT !.rb = rb1,
                        !.res = ReadResult("InvalidData", "Decryption failed", frame_len)]

\* the loop of EncryptedStream::poll_read.  st = [rb, db, w, out, res]:
\* read_buffer, decrypted_buffer, the transport, the bytes put in the
\* caller's buffer, the result.
RECURSIVE ReadLoop(_, _, _)
ReadLoop(st, cap, sched) ==
    IF st.db # <<>> THEN
        LET len == Min(cap, BLen(st.db)) IN
        [st EXCEPT !.out = BTake(st.db, len), !.db = BDrop(st.db, len),
                   !.res = ReadResult("Ready", "", st.res.frame_len)]
    ELSE IF BLen(st.rb) < U32_SIZE THEN
        LET n == InnerRead(st.w, sched) IN
        IF n = -1 THEN [st EXCEPT !.res = ReadResult("Pending", "", st.res.frame_len)]
        ELSE IF n = 0 THEN
            IF st.rb = <<>>
            THEN [st EXCEPT !.res = ReadResult("Eof", "", st.res.frame_len)]
            ELSE [st EXCEPT !.res = ReadResult("UnexpectedEof", "Partial frame length",
                                               st.res.frame_len)]
        ELSE ReadLoop([st EXCEPT !.rb = BCat(st.rb, BTake(st.w, n)), !.w = BDrop(st.w, n)],
                      cap, Tail(sched))
    ELSE
        LET frame_len == U32FromBe(st.rb) IN
        IF frame_len < NONCE_SIZE + 16 THEN
            [st EXCEPT !.res = ReadResult("InvalidData", "Frame too short", frame_len)]
        ELSE IF frame_len > MAX_FRAME_SIZE + FRAME_OVERHEAD THEN
            [st EXCEPT !.res = ReadResult("InvalidData", "Frame too large", frame_len)]
        ELSE
            LET total_required == U32_SIZE + frame_len IN
            IF BLen(st.rb) < total_required THEN
                LET n == InnerRead(st.w, sched) IN
                IF n = -1 THEN [st EXCEPT !.res = ReadResult("Pending", "", frame_len)]
                ELSE IF n = 0 THEN
                    [st EXCEPT !.res = ReadResult("UnexpectedEof", "Incomplete frame",
                                                  frame_len)]
                ELSE ReadLoop([st EXCEPT !.rb = BCat(st.rb, BTake(st.w, n)),
                                         !.w = BDrop(st.w, n),
                                         !.res = ReadResult("", "", frame_len)],
                              cap, Tail(sched))
            ELSE
                LET s5 == DecryptFrame(st, frame_len) IN
                IF s5.res.res = "" THEN ReadLoop(s5, cap, sched) ELSE s5

\* the schedules of the transport within one poll_read call
Schedules ==
    UNION { [1..n -> ShortChunks \cup {All}] : n \in 0..1 }

IsShort(sched) == \E i \in 1..Len(sched) : sched[i] # All

\* EncryptedStream::poll_read with a caller buffer of cap free bytes
PollRead(cap, sched) ==
    LET st0 == [rb |-> read_buffer, db |-> decrypted_buffer, w |-> wire,
                out |-> <<>>, res |-> ReadResult("", "", -1)]
        st == ReadLoop(st0, cap, sched)
        short == IsShort(sched) \/ st.db # <<>>
    IN  /\ short => partials < limits.partials
        /\ read_buffer' = st.rb
        /\ decrypted_buffer' = st.db
        /\ wire' = st.w
        /\ wire_out' = wire_out + (BLen(wire) - BLen(st.w))
        /\ delivered' = BCat(delivered, st.out)
        /\ last_read' = st.res
        /\ partials' = IF short THEN partials + 1 ELSE partials
        /\ UNCHANGED <<wkey, rkey, write_buffer, wire_eof, written, frame_lens, adv, limits>>
        /\ StreamOthers

\* the amounts the transport may accept of a buffer of len bytes before it
\* returns Pending, or Ok(0) (the WriteZero error): either way the call
\* returns with the bytes accepted so far removed from write_buffer
Accepts(len) == {n \in ShortChunks \cup {0} : n < len /\ partials < limits.partials} \cup {len}

\* write_buffer.advance(n) for every n the transport accepted
Advance(buf, n) == BDrop(buf, n)

\* the loop "while !write_buffer.is_empty()" of poll_write and poll_flush:
\* the transport accepts n bytes in all
Drain(n) ==
    /\ wire' = BCat(wire, BTake(write_buffer, n))
    /\ partials' = IF n < BLen(write_buffer) THEN partials + 1 ELSE partials

\* EncryptedStream::poll_write(buf)
PollWrite(buf, n, nonce) ==
    /\ ~wire_eof
    /\ Drain(n)
    /\ IF n < BLen(write_buffer) THEN
            /\ write_buffer' = Advance(write_buffer, n)
            /\ UNCHANGED <<written, frame_lens>>
       ELSE IF buf = <<>> THEN
            /\ write_buffer' = <<>>
            /\ UNCHANGED <<written, frame_lens>>
       ELSE
            LET ciphertext_tag == AeadEncrypt(wkey, nonce, buf)
                frame_len == NONCE_SIZE + BLen(ciphertext_tag)
            IN  /\ Len(frame_lens) < limits.writes
                /\ write_buffer' = BCat(PutU32(frame_len), BCat(nonce, ciphertext_tag))
                /\ written' = BCat(written, buf)
                /\ frame_lens' = Append(frame_lens, frame_len)
    /\ UNCHANGED <<wkey, rkey, wire_eof, read_buffer, decrypted_buffer, delivered,
                   wire_out, last_read, adv, limits>>
    /\ StreamOthers

\* EncryptedStream::poll_flush
PollFlush(n) ==
    /\ ~wire_eof
    /\ Drain(n)
    /\ write_buffer' = Advance(write_buffer, n)
    /\ UNCHANGED <<wkey, rkey, wire_eof, read_buffer, decrypted_buffer, written,
                   delivered, frame_lens, wire_out, last_read, adv, limits>>
    /\ StreamOthers

\* EncryptedStream::poll_shutdown
PollShutdown(n) ==
    /\ ~wire_eof
    /\ Drain(n)
    /\ write_buffer' = Advance(write_buffer, n)
    /\ wire_eof' = (n = BLen(write_buffer))
    /\ UNCHANGED <<wkey, rkey, read_buffer, decrypted_buffer, written, delivered,
                   frame_lens, wire_out, last_read, adv, limits>>
    /\ StreamOthers

\* the transport ends with what it has taken so far: the writing end went
\* away without poll_shutdown, whatever was left in its write_buffer
TransportEof ==
    /\ ~wire_eof
    /\ wire_eof' = TRUE
    /\ UNCHANGED <<wkey, rkey, write_buffer, wire, read_buffer, decrypted_buffer, written,
                   delivered, frame_lens, partials, wire_out, last_read, adv, limits>>
    /\ StreamOthers

\* EncryptedStream::new on both ends of the transport, with the session key
\* of one handshake
StreamNew ==
    /\ wkey \in Keys
    /\ rkey = wkey
    /\ write_buffer = <<>>
    /\ wire = <<>>
    /\ wire_eof = FALSE
    /\ read_buffer = <<>>
    /\ decrypted_buffer = <<>>
    /\ written = <<>>
    /\ delivered = <<>>
    /\ frame_lens = <<>>
    /\ partials = 0
    /\ wire_out = 0
    /\ last_read = ReadResult("", "", -1)
    /\ adv = <<>>

StreamInit ==
    /\ StreamNew
    /\ limits = [writes |-> MaxWrites, partials |-> MaxPartial, adv |-> 0]

StreamNext ==
    \/ \E buf \in WriteBufs \cup {<<>>}, n \in Accepts(BLen(write_buffer)) :
          PollWrite(buf, n, <<Run(Raw(7), NONCE_SIZE)>>)
    \/ \E n \in Accepts(BLen(write_buffer)) : PollFlush(n)
    \/ \E n \in Accepts(BLen(write_buffer)) : PollShutdown(n)
    \/ \E cap \in ReadCaps, sched \in Schedules : PollRead(cap, sched)

\* the stream over a transport that may end at any moment
StreamEofNext ==
    \/ StreamNext
    \/ TransportEof


(***************************************************************************)
(* Properties of the stream codec                                          *)
(***************************************************************************)
RECURSIVE SumTo(_, _)
\* the sum of f[1..n]
SumTo(f, n) == IF n = 0 THEN 0 ELSE f[n] + SumTo(f, n - 1)

\* the plaintext bytes the i-th emitted frame carries
FramePlainLen(i) == frame_lens[i] - NONCE_SIZE - TAG_SIZE

\* every accepted write was of at most 64 KiB
WritesWithinLimit == \A i \in DOMAIN frame_lens : FramePlainLen(i) <= 64 * 1024

\* C2: with both ends keyed alike and every write of at most 64 KiB, what the
\* reader has decrypted is at every moment a prefix of what was written, the
\* reader reports no error, and once nothing is left in the writer, the
\* transport and the reader, the bytes delivered are exactly the bytes written.
C2_FifoDelivery ==
    (wkey = rkey /\ WritesWithinLimit) =>
        /\ BIsPrefix(BCat(delivered, decrypted_buffer), written)
        /\ last_read.res \notin {"InvalidData", "UnexpectedEof"}
        /\ (write_buffer = <<>> /\ wire = <<>> /\ read_buffer = <<>>
                /\ decrypted_buffer = <<>>) => delivered = written

\* two writes, the second of 64 KiB, went through short transfers and were
\* delivered whole and in order
C2_Witness ==
    /\ wkey = rkey
    /\ Len(frame_lens) = 2
    /\ FramePlainLen(1) = 1
    /\ FramePlainLen(2) = 64 * 1024
    /\ partials = 2
    /\ delivered = written
    /\ BLen(delivered) = 64 * 1024 + 1

\* C28: a poll_read call with free space in the caller's buffer reports the
\* clean end of the stream, adding no byte, only when the transport is at
\* its end and read_buffer is empty; a call that finds the transport at its
\* end with a partial length header or a partial frame in read_buffer
\* returns UnexpectedEof
C28_Step ==
    \A cap \in ReadCaps, sched \in Schedules :
        PollRead(cap, sched) =>
            /\ last_read'.res = "Eof"
                  => /\ read_buffer' = <<>>
                     /\ wire' = <<>> /\ wire_eof
                     /\ delivered' = delivered
            /\ (wire' = <<>> /\ wire_eof /\ read_buffer' # <<>>
                   /\ last_read'.res \notin {"Ready", "InvalidData"})
                  => /\ last_read'.res = "UnexpectedEof"
                     /\ last_read'.msg = IF BLen(read_buffer') < U32_SIZE
                                         THEN "Partial frame length"
                                         ELSE "Incomplete frame"
                     /\ delivered' = delivered

C28_EofOnlyWhenEmpty == [][C28_Step]_vars

\* a first frame was delivered; of the second, one byte of the length
\* header reached the reader before the transport ended, and poll_read
\* returned UnexpectedEof
C28_Witness ==
    /\ wire_eof /\ wire = <<>>
    /\ BLen(delivered) > 0
    /\ BLen(read_buffer) \in 1..(U32_SIZE - 1)
    /\ last_read.res = "UnexpectedEof"
    /\ last_read.msg = "Partial frame length"

\* C5: poll_read rejects a frame for its length field exactly when the field
\* is below 28 or above 12 + 65536 + 16.
C5_LengthBounds ==
    last_read.frame_len # -1 =>
        ((last_read.msg \in {"Frame too short", "Frame too large"})
            <=> (last_read.frame_len < 28 \/ last_read.frame_len > 12 + 65536 + 16))

\* C6: every frame poll_write emits carries at most 64 KiB of plaintext.
C6_FramePayloadBound == \A i \in DOMAIN frame_lens : FramePlainLen(i) <= 64 * 1024

(***************************************************************************)
(* The transport under an adversary: it flips a bit of a byte in transit.   *)
(***************************************************************************)
\* offsets into the bytes in transit: of a frame of 3 plaintext bytes at the
\* head of the wire, the first byte of the nonce (4), the first byte of the
\* ciphertext (16) and the last byte of the tag (34)
TamperOffsets == {4, 16, 34}

Tamper(i) ==
    /\ Len(adv) < limits.adv
    /\ i < BLen(wire)
    /\ wire' = BFlipAt(wire, i)
    /\ adv' = Append(adv, [kind |-> "flip", off |-> wire_out + i])
    /\ UNCHANGED <<wkey, rkey, write_buffer, wire_eof, read_buffer, decrypted_buffer,
                   written, delivered, frame_lens, partials, wire_out, last_read, limits>>
    /\ StreamOthers

StreamAdvInit ==
    /\ StreamNew
    /\ limits = [writes |-> MaxAdvWrites, partials |-> MaxAdvPartial, adv |-> MaxAdv]

\* the short transfers, and the schedules of the transport, of a run with
\* the adversary
AdvChunks == {4, 17}

AdvAccepts(len) == {n \in AdvChunks \cup {0} : n < len /\ partials < limits.partials} \cup {len}

AdvSchedules == { <<>>, <<All>> } \cup { <<n>> : n \in AdvChunks }

StreamAdvNext ==
    \/ \E buf \in AdvWriteBufs, n \in AdvAccepts(BLen(write_buffer)), nonce \in Nonces :
          PollWrite(buf, n, nonce)
    \/ \E n \in AdvAccepts(BLen(write_buffer)) : PollFlush(n)
    \/ \E n \in AdvAccepts(BLen(write_buffer)) : PollShutdown(n)
    \/ \E sched \in AdvSchedules : PollRead(2 * MAX_FRAME_SIZE, sched)
    \/ \E i \in TamperOffsets : Tamper(i)


\* the adversary puts, ahead of the bytes in transit, the four bytes of a
\* length header that announces the shortest frame
Inject ==
    /\ Len(adv) < limits.adv
    /\ wire' = BCat(PutU32(NONCE_SIZE + 16), wire)
    /\ adv' = Append(adv, [kind |-> "inject", off |-> wire_out])
    /\ UNCHANGED <<wkey, rkey, write_buffer, wire_eof, read_buffer, decrypted_buffer,
                   written, delivered, frame_lens, partials, wire_out, last_read, limits>>
    /\ StreamOthers

\* the stream over a transport to which the adversary adds bytes
StreamInjectNext ==
    \/ \E buf \in AdvWriteBufs, n \in AdvAccepts(BLen(write_buffer)), nonce \in Nonces :
          PollWrite(buf, n, nonce)
    \/ \E n \in AdvAccepts(BLen(write_buffer)) : PollFlush(n)
    \/ \E n \in AdvAccepts(BLen(write_buffer)) : PollShutdown(n)
    \/ \E sched \in AdvSchedules : PollRead(2 * MAX_FRAME_SIZE, sched)
    \/ Inject

(***************************************************************************)
(* Properties of the stream codec under the adversary                      *)
(***************************************************************************)
\* C35: a frame error is final for reading: a poll_read call made on a
\* stream whose latest poll_read returned InvalidData delivers no plaintext
C35_Step == last_read.res = "InvalidData" => delivered' = delivered

C35_FrameErrorIsFatal == [][C35_Step]_vars

\* the offset in the byte stream of the transport at which frame j ends
FrameEnd(j) == SumTo([i \in DOMAIN frame_lens |-> U32_SIZE + frame_lens[i]], j)

\* the plaintext bytes written before frame j
PlainBefore(j) == SumTo([i \in DOMAIN frame_lens |-> FramePlainLen(i)], j - 1)

\* the offsets of the byte stream that stand flipped
Flipped ==
    {o \in {adv[i].off : i \in DOMAIN adv} :
        Cardinality({i \in DOMAIN adv : adv[i].off = o}) % 2 = 1}

\* the nonce, the ciphertext or the tag of frame j was altered in transit
Altered(j) == \E o \in Flipped : FrameEnd(j - 1) + U32_SIZE <= o /\ o < FrameEnd(j)

\* the length field of frame j was altered in transit
HeaderAltered(j) == \E o \in Flipped : FrameEnd(j - 1) <= o /\ o < FrameEnd(j - 1) + U32_SIZE

\* the reader stands at the start of frame j, every frame before it served
AtFrame(j) ==
    /\ wire_out - BLen(read_buffer) = FrameEnd(j - 1)
    /\ decrypted_buffer = <<>>
    /\ BLen(delivered) = PlainBefore(j)

\* a poll_read call that changed the reader
ReadStep == <<read_buffer, last_read, wire_out>>' # <<read_buffer, last_read, wire_out>>

C4_NoPlaintext ==
    /\ BIsPrefix(BCat(delivered, decrypted_buffer), written)
    /\ \A j \in DOMAIN frame_lens :
          Altered(j) => BLen(delivered) + BLen(decrypted_buffer) <= PlainBefore(j)

C4_Rejects ==
    \A j \in DOMAIN frame_lens :
        (Altered(j) /\ ~HeaderAltered(j) /\ AtFrame(j) /\ ReadStep
            /\ wire_out' >= FrameEnd(j))
        => /\ last_read'.res = "InvalidData"
           /\ delivered' = delivered
           /\ decrypted_buffer' = <<>>

\* C4: a frame whose nonce, ciphertext or tag was altered in transit never
\* contributes a byte to decrypted_buffer or to the bytes delivered, and the
\* poll_read call that has the whole frame returns InvalidData.
C4_TamperDetected == [] C4_NoPlaintext /\ [][C4_Rejects]_vars

\* the second frame was altered; the first was delivered, the second was
\* read whole and rejected
C4_Witness ==
    /\ Len(frame_lens) = 2
    /\ Altered(2)
    /\ wire_out >= FrameEnd(2)
    /\ BLen(delivered) = PlainBefore(2)
    /\ PlainBefore(2) > 0
    /\ last_read.msg = "Decryption failed"


(***************************************************************************)
(* crates/crypto/src/hybrid_kex.rs                                         *)
(* A 32-byte block (an X25519 scalar, point or shared secret, an ML-KEM    *)
(* shared secret, a session key) is one number in 0..255: the bytewise     *)
(* operations of the code act on it as they act on each byte of the block. *)
(* X25519 is the Diffie-Hellman function of the group of units modulo 23   *)
(* with base 5; ML-KEM is a KEM with implicit rejection.                   *)
(***************************************************************************)
RECURSIVE PowMod(_, _, _)
PowMod(b, e, m) == IF e = 0 THEN 1 ELSE (b * PowMod(b, e - 1, m)) % m

\* x25519_dalek: PublicKey::from(&secret)
X25519PublicKey(secret) == PowMod(5, secret, 23)

\* DiffieHellman with the base point in place of the peer's public key
DiffieHellmanBase(secret, peer) == PowMod(5, secret, 23)

\* x25519_dalek: secret.diffie_hellman(&peer)
DiffieHellman(secret, peer) == PowMod(peer, secret, 23)

\* mlkem768::keypair() for the random seed z
MlkemKeypair(z) == [pk |-> 100 + z, sk |-> z]

\* the shared secret a ciphertext for pk with the random message m carries
MlkemShared(pk, m) == (31 * pk + 17 * m + 3) % 256

\* mlkem768::encapsulate(pk) for the random message m
MlkemEncapsulate(pk, m) ==
    [ss |-> MlkemShared(pk, m), ct |-> [valid |-> TRUE, pk |-> pk, m |-> m]]

\* mlkem768::decapsulate(ct, sk): a ciphertext made for another key gives a
\* secret that depends on sk and ct only (implicit rejection)
MlkemDecapsulate(ct, sk) ==
    IF ct.pk = MlkemKeypair(sk).pk THEN MlkemShared(ct.pk, ct.m)
    ELSE (13 * sk + 7 * ct.m + ct.pk + 129) % 256

\* the bitwise exclusive or of two bytes
RECURSIVE Xor(_, _)
Xor(a, b) ==
    IF a = 0 THEN b
    ELSE IF b = 0 THEN a
    ELSE ((a + b) % 2) + 2 * Xor(a \div 2, b \div 2)

\* HybridSharedSecret::combine: inner[..32] and inner[32..64]
Combine(x25519_secret, mlkem_secret) == <<x25519_secret, mlkem_secret>>

\* HybridSharedSecret::derive_key: key[i] = inner[i] ^ inner[i + 32]
DeriveKey(shared_secret) == Xor(shared_secret[1], shared_secret[2])

\* HybridKeyExchange::generate_keypair for the random values x and z
GenerateKeypair(x, z) ==
    [public_key |-> [x25519 |-> X25519PublicKey(x), mlkem |-> MlkemKeypair(z).pk],
     secret_key |-> [x25519 |-> x, mlkem |-> MlkemKeypair(z).sk]]

\* HybridKeyExchange::encapsulate for the random values e and m
Encapsulate(peer_public_key, e, m) ==
    LET x25519_shared == DiffieHellman(e, peer_public_key.x25519)
        kem == MlkemEncapsulate(peer_public_key.mlkem, m)
    IN  [ciphertext |-> [x25519_ephemeral |-> X25519PublicKey(e),
                         mlkem_ciphertext |-> kem.ct],
         shared_secret |-> Combine(x25519_shared, kem.ss)]

\* HybridKeyExchange::decapsulate; Ciphertext::from_bytes fails on a
\* ciphertext of the wrong length
Decapsulate(ciphertext, secret_key) ==
    IF ~ciphertext.mlkem_ciphertext.valid
    THEN [ok |-> FALSE, shared_secret |-> <<0, 0>>]
    ELSE [ok |-> TRUE,
          shared_secret |->
              Combine(DiffieHellman(secret_key.x25519, ciphertext.x25519_ephemeral),
                      MlkemDecapsulate(ciphertext.mlkem_ciphertext, secret_key.mlkem))]

\* the values the random source gives: X25519 secrets, ML-KEM seeds and
\* ML-KEM messages
Scalars == {2, 3}

KemSeeds == {1, 2}

KemMessages == {4}

(***************************************************************************)
(* crates/crypto/src/cipher.rs                                             *)
(* An AtomicU64 is kept as its eight big-endian bytes, so that it has the  *)
(* width of the code.                                                      *)
(***************************************************************************)
\* the u64 of value n, n < 256
U64(n) == <<0, 0, 0, 0, 0, 0, 0, n>>

\* wrapping increment of a big-endian number
RECURSIVE IncBe(_)
IncBe(c) ==
    IF c = <<>> THEN <<>>
    ELSE LET n == Len(c) IN
         IF c[n] = 255 THEN IncBe(SubSeq(c, 1, n - 1)) \o <<0>>
         ELSE SubSeq(c, 1, n - 1) \o <<c[n] + 1>>

\* big-endian numbers of the same length: a < b
RECURSIVE LessBe(_, _)
LessBe(a, b) ==
    IF a = <<>> THEN FALSE
    ELSE IF a[1] # b[1] THEN a[1] < b[1]
    ELSE LessBe(Tail(a), Tail(b))

\* fetch_add as it would be if it left the counter as it is
FetchAddStuck(counter) == counter

\* AtomicU64::fetch_add(1, SeqCst): the value stored; the value returned is
\* the one before
FetchAdd(counter) == IncBe(counter)

\* Cipher::create_nonce: four zero bytes, then counter.to_be_bytes()
CreateNonce(counter) ==
    BNorm(<<Run(Raw(0), 4)>> \o [i \in 1..8 |-> Run(Raw(counter[i]), 1)])

\* Cipher::new
CipherNew(key) == [key |-> key, nonce_counter |-> U64(1)]

\* Cipher::encrypt after the fetch_add: nonce || ciphertext || tag
Seal(key, nonce_value, plaintext) ==
    LET nonce == CreateNonce(nonce_value)
    IN  BCat(nonce, AeadEncrypt(key, nonce, plaintext))

\* Cipher::decrypt
CipherDecrypt(key, data) ==
    IF BLen(data) < 12 THEN [ok |-> FALSE, pt |-> <<>>]
    ELSE AeadDecrypt(key, BTake(data, 12), BDrop(data, 12))

(***************************************************************************)
(* crates/crypto/src/tls.rs: a responder and an initiator, each with its   *)
(* own PqcHandshake, exchanging public keys, ciphertexts and messages      *)
(***************************************************************************)
MaxInits == 2           \* server_init calls

MaxChannels == 2        \* SecureChannels created

MaxMessages == 2        \* encrypt calls on the SecureChannels, in all

\* the messages the two sides send
Plaintexts == { <<Run(Raw(72), 1), Run(Raw(105), 1)>>, <<Run(Raw(33), 3)>> }

\* SecureChannel::new
SecureChannelNew(encryption_key, channel_id, algorithm) ==
    [cipher |-> CipherNew(encryption_key), channel_id |-> channel_id,
     algorithm |-> algorithm]

\* PqcHandshake::new on both sides
HandshakeInit ==
    /\ channel_counter = [server |-> U64(1), client |-> U64(1)]
    /\ inits = <<>>
    /\ ciphertexts = <<>>
    /\ channels = <<>>
    /\ inflight = <<>>
    /\ last_decrypt = [by |-> 0, from |-> 0, pt |-> <<>>, ok |-> FALSE, out |-> <<>>]

\* PqcHandshake::server_init: the public key goes to the initiator, the
\* state stays with the responder
ServerInit(x, z) ==
    /\ Len(inits) < MaxInits
    /\ LET kp == GenerateKeypair(x, z) IN
       inits' = Append(inits, [pk |-> kp.public_key,
                               state |-> [secret_key |-> kp.secret_key,
                                          algorithm |-> "HybridKyber768"],
                               live |-> TRUE])
    /\ UNCHANGED <<channel_counter, ciphertexts, channels, inflight, last_decrypt>>
    /\ HandshakeOthers

\* PqcHandshake::client_complete on the public key of the i-th server_init
ClientComplete(i, e, m) ==
    /\ i \in DOMAIN inits
    /\ Len(channels) < MaxChannels
    /\ LET enc == Encapsulate(inits[i].pk, e, m)
           encryption_key == DeriveKey(enc.shared_secret)
           channel_id == channel_counter.client
       IN  /\ channel_counter' = [channel_counter EXCEPT !.client = FetchAdd(@)]
           /\ ciphertexts' = Append(ciphertexts, [ciphertext |-> enc.ciphertext, init |-> i])
           /\ channels' = Append(channels,
                  [chan |-> SecureChannelNew(encryption_key, channel_id, "HybridKyber768"),
                   role |-> "client", init |-> i, ct |-> Len(ciphertexts) + 1])
    /\ UNCHANGED <<inits, inflight, last_decrypt>>
    /\ HandshakeOthers

\* PqcHandshake::server_complete on the j-th ciphertext with the state of
\* the i-th server_init; the state is moved into the call
ServerComplete(j, i) ==
    /\ j \in DOMAIN ciphertexts
    /\ i \in DOMAIN inits
    /\ inits[i].live
    /\ Len(channels) < MaxChannels
    /\ inits' = [inits EXCEPT ![i].live = FALSE]
    /\ LET dec == Decapsulate(ciphertexts[j].ciphertext, inits[i].state.secret_key)
           encryption_key == DeriveKey(dec.shared_secret)
           channel_id == channel_counter.server
       IN  IF dec.ok
           THEN /\ channel_counter' = [channel_counter EXCEPT !.server = FetchAdd(@)]
                /\ channels' = Append(channels,
                       [chan |-> SecureChannelNew(encryption_key, channel_id,
                                                  inits[i].state.algorithm),
                        role |-> "server", init |-> i, ct |-> j])
           ELSE UNCHANGED <<channel_counter, channels>>
    /\ UNCHANGED <<ciphertexts, inflight, last_decrypt>>
    /\ HandshakeOthers

\* PqcHandshake::client_complete called on the handler that also serves:
\* one PqcHandshake takes both sides, as in test_channel_ids_are_unique
ClientCompleteSameHandler(i, e, m) ==
    /\ i \in DOMAIN inits
    /\ Len(channels) < MaxChannels
    /\ LET enc == Encapsulate(inits[i].pk, e, m)
           encryption_key == DeriveKey(enc.shared_secret)
           channel_id == channel_counter.server
       IN  /\ channel_counter' = [channel_counter EXCEPT !.server = FetchAdd(@)]
           /\ ciphertexts' = Append(ciphertexts, [ciphertext |-> enc.ciphertext, init |-> i])
           /\ channels' = Append(channels,
                  [chan |-> SecureChannelNew(encryption_key, channel_id, "HybridKyber768"),
                   role |-> "client", init |-> i, ct |-> Len(ciphertexts) + 1])
    /\ UNCHANGED <<inits, inflight, last_decrypt>>
    /\ HandshakeOthers

\* the encrypt calls made so far: a counter starts at 1 and a run makes
\* fewer than 255 calls
Encrypted ==
    SumTo([d \in DOMAIN channels |-> channels[d].chan.cipher.nonce_counter[8] - 1],
          Len(channels))

\* SecureChannel::encrypt on the c-th channel; the result is sent
ChannelEncrypt(c, plaintext) ==
    /\ c \in DOMAIN channels
    /\ inflight = <<>>
    /\ Encrypted < MaxMessages
    /\ LET nonce_value == channels[c].chan.cipher.nonce_counter IN
       /\ channels' = [channels EXCEPT ![c].chan.cipher.nonce_counter = FetchAdd(@)]
       /\ inflight' = <<[from |-> c, pt |-> plaintext,
                         data |-> Seal(channels[c].chan.cipher.key, nonce_value, plaintext)]>>
    /\ UNCHANGED <<channel_counter, inits, ciphertexts, last_decrypt>>
    /\ HandshakeOthers

\* SecureChannel::decrypt on the d-th channel of the message received
ChannelDecrypt(d) ==
    /\ d \in DOMAIN channels
    /\ inflight # <<>>
    /\ d # inflight[1].from
    /\ LET r == CipherDecrypt(channels[d].chan.cipher.key, inflight[1].data) IN
       last_decrypt' = [by |-> d, from |-> inflight[1].from, pt |-> inflight[1].pt,
                        ok |-> r.ok, out |-> r.pt]
    /\ inflight' = <<>>
    /\ UNCHANGED <<channel_counter, inits, ciphertexts, channels>>
    /\ HandshakeOthers

HandshakeNext ==
    \/ \E x \in Scalars, z \in KemSeeds : ServerInit(x, z)
    \/ \E i \in 1..MaxInits, e \in Scalars, m \in KemMessages : ClientComplete(i, e, m)
    \/ \E j \in 1..MaxChannels, i \in 1..MaxInits : ServerComplete(j, i)
    \/ \E c \in 1..MaxChannels, plaintext \in Plaintexts : ChannelEncrypt(c, plaintext)
    \/ \E d \in 1..MaxChannels : ChannelDecrypt(d)

(***************************************************************************)
(* Properties of the handshake                                             *)
(***************************************************************************)
\* channel c is the initiator's and channel d the responder's of one
\* handshake: d was made from the ciphertext that came with c, with the
\* state of the server_init whose public key c was made from
Paired(c, d) ==
    /\ channels[c].role = "client"
    /\ channels[d].role = "server"
    /\ channels[d].ct = channels[c].ct
    /\ channels[d].init = channels[c].init

\* C1: the two SecureChannels of one handshake hold the same session key,
\* and a message encrypted by one of them is decrypted by the other to the
\* plaintext that was encrypted
C1_SameSessionKey ==
    /\ \A c, d \in DOMAIN channels :
          Paired(c, d) => channels[c].chan.cipher.key = channels[d].chan.cipher.key
    /\ (last_decrypt.by # 0
          /\ (Paired(last_decrypt.from, last_decrypt.by)
                \/ Paired(last_decrypt.by, last_decrypt.from)))
       => (last_decrypt.ok /\ last_decrypt.out = last_decrypt.pt)

\* the responder of the second handshake has decrypted, to the plaintext
\* sent, the second message of its initiator
C1_Witness ==
    /\ last_decrypt.by # 0
    /\ Paired(last_decrypt.from, last_decrypt.by)
    /\ channels[last_decrypt.by].init = 2
    /\ channels[last_decrypt.from].chan.cipher.nonce_counter = U64(3)
    /\ last_decrypt.ok
    /\ last_decrypt.out = last_decrypt.pt
    /\ BLen(last_decrypt.pt) > 0

\* the nonce counters with which channel c has encrypted: a Cipher starts
\* at 1 and a run stays below 255 calls
NoncesUsed(c) == 1..(channels[c].chan.cipher.nonce_counter[8] - 1)

\* C34: the initiator's and the responder's SecureChannel of one session,
\* which hold the same key, never encrypt under the same nonce
C34_NoNonceReuseInSession ==
    \A c, d \in DOMAIN channels :
        (Paired(c, d) /\ channels[c].chan.cipher.key = channels[d].chan.cipher.key)
            => NoncesUsed(c) \cap NoncesUsed(d) = {}

\* C24: no two channels established in the process have the same
\* channel_id, whichever PqcHandshake instance established them
C24_ChannelIdsUnique ==
    \A c, d \in DOMAIN channels :
        c # d => channels[c].chan.channel_id # channels[d].chan.channel_id

\* one handler takes every call; each call is one step at its fetch_add,
\* the only access of a call to what the calls share
OneHandlerNext ==
    \/ \E x \in Scalars, z \in KemSeeds : ServerInit(x, z)
    \/ \E i \in 1..MaxInits, e \in Scalars, m \in KemMessages :
          ClientCompleteSameHandler(i, e, m)
    \/ \E j \in 1..MaxChannels, i \in 1..MaxInits : ServerComplete(j, i)

\* C33: the channel ids one PqcHandshake hands out, in the order in which
\* it assigns them, are 1, 2, 3, ...: pairwise distinct, strictly increasing
\* and starting at 1, whatever the order of the client_complete and
\* server_complete calls
C33_IdsIncreaseFromOne ==
    \A c \in DOMAIN channels : channels[c].chan.channel_id = U64(c)

\* the handler has made channels of both sides: the first id went to an
\* initiator, the last to a responder
C33_Witness ==
    /\ Len(channels) = MaxChannels
    /\ channels[1].role = "client"
    /\ channels[1].chan.channel_id = U64(1)
    /\ channels[MaxChannels].role = "server"
    /\ channels[MaxChannels].chan.channel_id = U64(MaxChannels)

(***************************************************************************)
(* crates/crypto/src/cipher.rs: threads sharing one Cipher.  An encrypt    *)
(* call is two steps: the fetch_add on the counter, which is atomic, and   *)
(* the rest of the call, which works on the value the fetch_add returned.  *)
(***************************************************************************)
MaxThreads == 2         \* threads that call encrypt

MaxEncrypts == 4        \* encrypt calls on the Cipher

Threads == 1..MaxThreads

Idle == [pc |-> "idle", nonce_value |-> U64(0), plaintext |-> <<>>, after |-> 0]

\* the calls begun: those that returned and those in progress
Begun == Len(sealed) + Cardinality({t \in Threads : enc_calls[t].pc = "sealing"})

CipherInit ==
    /\ cipher = CipherNew(1)
    /\ enc_calls = [t \in Threads |-> Idle]
    /\ sealed = <<>>

\* Cipher::encrypt, line 91: thread t takes its counter value; "after" is
\* the number of calls that had returned when this one began
EncryptFetch(t, plaintext) ==
    /\ enc_calls[t].pc = "idle"
    /\ Begun < MaxEncrypts
    /\ enc_calls' = [enc_calls EXCEPT ![t] = [pc |-> "sealing",
                                              nonce_value |-> cipher.nonce_counter,
                                              plaintext |-> plaintext,
                                              after |-> Len(sealed)]]
    /\ cipher' = [cipher EXCEPT !.nonce_counter = FetchAdd(@)]
    /\ UNCHANGED sealed
    /\ CipherOthers

\* Cipher::encrypt, lines 92-116: thread t encrypts under its nonce and returns
EncryptSeal(t) ==
    /\ enc_calls[t].pc = "sealing"
    /\ sealed' = Append(sealed, [thread |-> t, after |-> enc_calls[t].after,
                                 data |-> Seal(cipher.key, enc_calls[t].nonce_value,
                                               enc_calls[t].plaintext)])
    /\ enc_calls' = [enc_calls EXCEPT ![t] = Idle]
    /\ UNCHANGED cipher
    /\ CipherOthers

CipherNext ==
    \/ \E t \in Threads, plaintext \in Plaintexts : EncryptFetch(t, plaintext)
    \/ \E t \in Threads : EncryptSeal(t)

\* a Cipher on which encrypt has returned 2^64 - 2 times: the counter,
\* which Cipher::new set to 1, is at u64::MAX
CipherWorn ==
    /\ cipher = [CipherNew(1) EXCEPT !.nonce_counter = <<255, 255, 255, 255, 255, 255, 255, 255>>]
    /\ enc_calls = [t \in Threads |-> Idle]
    /\ sealed = <<>>

(***************************************************************************)
(* Properties of the Cipher                                                *)
(***************************************************************************)
\* C27: no encrypt call makes the nonce counter wrap: the counter never
\* goes from a value to a smaller one
C27_Step == ~LessBe(cipher.nonce_counter', cipher.nonce_counter)

C27_NoWrap == [][C27_Step]_vars

\* the nonce of the i-th result, as the numbers of its twelve bytes
NonceOf(i) == [k \in 1..12 |-> ByteVal(BByte(sealed[i].data, k - 1))]

\* the nonce thread t is about to use
NonceIn(t) == [k \in 1..12 |-> ByteVal(BByte(CreateNonce(enc_calls[t].nonce_value), k - 1))]

\* C3: the nonces of the encrypt calls on one Cipher, returned or in
\* progress, are pairwise distinct under every interleaving; the first
\* counter value taken is 1; and of two calls the first of which returned
\* before the second began, the second has the greater nonce
C3_NoncesDistinct ==
    /\ \A i, j \in DOMAIN sealed : i # j => NonceOf(i) # NonceOf(j)
    /\ \A t, u \in Threads :
          (t # u /\ enc_calls[t].pc = "sealing" /\ enc_calls[u].pc = "sealing")
              => NonceIn(t) # NonceIn(u)
    /\ \A t \in Threads, i \in DOMAIN sealed :
          enc_calls[t].pc = "sealing" => NonceIn(t) # NonceOf(i)
    /\ (Begun = 0) => cipher.nonce_counter = U64(1)
    /\ (Begun > 0) =>
          \/ \E i \in DOMAIN sealed : NonceOf(i) = <<0, 0, 0, 0>> \o U64(1)
          \/ \E t \in Threads : enc_calls[t].pc = "sealing" /\ enc_calls[t].nonce_value = U64(1)
    /\ \A i, j \in DOMAIN sealed : i <= sealed[j].after => LessBe(NonceOf(i), NonceOf(j))
    /\ \A t \in Threads, i \in DOMAIN sealed :
          (enc_calls[t].pc = "sealing" /\ i <= enc_calls[t].after)
              => LessBe(NonceOf(i), NonceIn(t))

\* all the calls of the run have returned; two of them overlapped and
\* returned in the order opposite to that of their counter values, and the
\* last began after all the others had returned
C3_Witness ==
    /\ Len(sealed) = MaxEncrypts
    /\ \E i \in DOMAIN sealed : i < Len(sealed) /\ LessBe(NonceOf(i + 1), NonceOf(i))
    /\ sealed[Len(sealed)].after = Len(sealed) - 1

(***************************************************************************)
(* crates/crypto/src/mtls.rs: one MtlsAuthenticator, and the initiators of *)
(* its connections                                                         *)
(***************************************************************************)
MaxConnections == 1     \* accept_connection calls

MaxCompletions == 2     \* complete_handshake calls

\* the client_cert_der arguments: none, bytes that are no certificate, a
\* certificate of an unknown issuer, an expired one, a good one
NoCert == [given |-> FALSE, parses |-> FALSE, trusted |-> FALSE, valid_now |-> FALSE]

CertArgs ==
    { NoCert,
      [given |-> TRUE, parses |-> FALSE, trusted |-> FALSE, valid_now |-> FALSE],
      [given |-> TRUE, parses |-> TRUE, trusted |-> FALSE, valid_now |-> TRUE],
      [given |-> TRUE, parses |-> TRUE, trusted |-> TRUE, valid_now |-> FALSE],
      [given |-> TRUE, parses |-> TRUE, trusted |-> TRUE, valid_now |-> TRUE] }

\* a ciphertext whose ML-KEM part has the wrong length
MalformedCiphertext ==
    [x25519_ephemeral |-> 1, mlkem_ciphertext |-> [valid |-> FALSE, pk |-> 0, m |-> 0]]

\* a connection id accept_connection never returned
UnknownId == U64(99)

AuthState(tag, msg) == [tag |-> tag, msg |-> msg]

\* AuthenticatedClient::new
AuthenticatedClientNew(connection_id) ==
    [connection_id |-> connection_id, cert |-> NoCert,
     state |-> AuthState("Unauthenticated", ""), channel |-> <<>>,
     authenticated_at |-> "None", ct |-> <<>>]

\* the function f with the value v at x, x in its domain or not
Insert(f, x, v) == [y \in DOMAIN f \cup {x} |-> IF y = x THEN v ELSE f[y]]

\* the function f without x
Remove(f, x) == [y \in DOMAIN f \ {x} |-> f[y]]

\* MtlsAuthenticator::new
MtlsNew(require) ==
    /\ require_client_cert = require
    /\ connection_counter = U64(1)
    /\ mtls_channel_counter = U64(1)
    /\ clients = <<>>
    /\ offered = <<>>
    /\ initiator = <<>>
    /\ completions = 0

\* MtlsAuthenticator::accept_connection: the state of server_init is dropped
AcceptConnection(x, z) ==
    /\ LessBe(connection_counter, U64(MaxConnections + 1))
    /\ LET conn_id == connection_counter
           kp == GenerateKeypair(x, z)
           client == [AuthenticatedClientNew(conn_id)
                          EXCEPT !.state = AuthState("HandshakeInProgress", "")]
       IN  /\ connection_counter' = FetchAdd(connection_counter)
           /\ clients' = Insert(clients, conn_id, client)
           /\ offered' = Insert(offered, conn_id, kp.public_key)
           /\ initiator' = Insert(initiator, conn_id, <<>>)
    /\ UNCHANGED <<require_client_cert, mtls_channel_counter, completions>>
    /\ MtlsOthers

\* the initiator of connection id: client_complete on the public key that
\* accept_connection returned
InitiatorComplete(id, e, m) ==
    /\ id \in DOMAIN offered
    /\ initiator[id] = <<>>
    /\ LET enc == Encapsulate(offered[id], e, m) IN
       initiator' = [initiator EXCEPT ![id] =
                        <<[ciphertext |-> enc.ciphertext,
                           key |-> DeriveKey(enc.shared_secret)]>>]
    /\ UNCHANGED <<require_client_cert, connection_counter, mtls_channel_counter,
                   clients, offered, completions>>
    /\ MtlsOthers

\* what complete_handshake does with the certificate: "" when the call
\* goes on, else the message of the Failed state (lines 204-249)
CertFailure(cert) ==
    IF cert.given /\ ~cert.parses /\ require_client_cert THEN "Invalid client certificate"
    ELSE IF ~require_client_cert THEN ""
    ELSE IF ~(cert.given /\ cert.parses) THEN "Client certificate required"
    ELSE IF ~cert.trusted THEN "Certificate verification failed"
    ELSE IF ~cert.valid_now THEN "Client certificate expired"
    ELSE ""

\* MtlsAuthenticator::complete_handshake; x and z are the random values of
\* the server_init it makes
CompleteHandshake(id, ciphertext, cert, x, z) ==
    /\ completions < MaxCompletions
    /\ completions' = completions + 1
    /\ IF id \notin DOMAIN clients
       THEN UNCHANGED <<clients, mtls_channel_counter>>
       ELSE IF CertFailure(cert) # ""
       THEN /\ clients' = [clients EXCEPT ![id].state = AuthState("Failed", CertFailure(cert))]
            /\ UNCHANGED mtls_channel_counter
       ELSE LET server_state == [secret_key |-> GenerateKeypair(x, z).secret_key,
                                 algorithm |-> "HybridKyber768"]
                dec == Decapsulate(ciphertext, server_state.secret_key)
                channel == SecureChannelNew(DeriveKey(dec.shared_secret),
                                            mtls_channel_counter, server_state.algorithm)
            IN  IF ~dec.ok
                THEN UNCHANGED <<clients, mtls_channel_counter>>
                ELSE /\ mtls_channel_counter' = FetchAdd(mtls_channel_counter)
                     /\ clients' = [clients EXCEPT ![id] =
                            [@ EXCEPT !.cert = IF cert.given /\ cert.parses THEN cert ELSE NoCert,
                                      !.channel = <<channel>>,
                                      !.state = AuthState("Authenticated", ""),
                                      !.authenticated_at = "Some",
                                      !.ct = <<ciphertext>>]]
    /\ UNCHANGED <<require_client_cert, connection_counter, offered, initiator>>
    /\ MtlsOthers

\* MtlsAuthenticator::disconnect
Disconnect(id) ==
    /\ id \in DOMAIN clients
    /\ clients' = Remove(clients, id)
    /\ UNCHANGED <<require_client_cert, connection_counter, mtls_channel_counter,
                   offered, initiator, completions>>
    /\ MtlsOthers

\* the ciphertexts a peer may send for connection id
CiphertextArgs(id) ==
    {MalformedCiphertext}
        \cup (IF id \in DOMAIN initiator /\ initiator[id] # <<>>
              THEN {initiator[id][1].ciphertext} ELSE {})

MtlsNext ==
    \/ \E x \in Scalars, z \in KemSeeds : AcceptConnection(x, z)
    \/ \E id \in DOMAIN offered, e \in Scalars, m \in KemMessages : InitiatorComplete(id, e, m)
    \/ \E id \in DOMAIN clients \cup {UnknownId}, cert \in CertArgs,
          x \in Scalars, z \in KemSeeds :
          \E ciphertext \in CiphertextArgs(id) : CompleteHandshake(id, ciphertext, cert, x, z)
    \/ \E id \in DOMAIN clients : Disconnect(id)

(***************************************************************************)
(* Properties of the authenticator                                         *)
(***************************************************************************)
\* C7: the channel of an Authenticated connection that was completed with
\* the ciphertext of its initiator holds the session key the initiator
\* derived against the public key accept_connection returned
C7_ChannelKeyIsInitiatorKey ==
    \A id \in DOMAIN clients :
        (clients[id].state.tag = "Authenticated"
            /\ initiator[id] # <<>>
            /\ clients[id].ct = <<initiator[id][1].ciphertext>>)
        => clients[id].channel[1].cipher.key = initiator[id][1].key

\* C36: a complete_handshake call that returns an error for a registered
\* connection whose handshake is in progress (a certificate that is missing,
\* unparsable, untrusted or expired, or a ciphertext that fails to
\* decapsulate) leaves the connection Failed
C36_Step ==
    \A id \in DOMAIN clients, cert \in CertArgs, x \in Scalars, z \in KemSeeds :
        \A ciphertext \in CiphertextArgs(id) :
            (/\ CompleteHandshake(id, ciphertext, cert, x, z)
             /\ clients[id].state.tag = "HandshakeInProgress"
             /\ (CertFailure(cert) # "" \/ ~ciphertext.mlkem_ciphertext.valid))
                => clients'[id].state.tag = "Failed"

C36_ErrorLeavesFailed == [][C36_Step]_vars

\* C8: no step takes a connection that is Authenticated or Failed to another
\* authentication state (the message of Failed aside)
C8_Stays ==
    \A id \in DOMAIN clients :
        (id \in DOMAIN clients' /\ clients[id].state.tag \in {"Authenticated", "Failed"})
            => clients'[id].state.tag = clients[id].state.tag

C8_TerminalStateIsFinal == [][C8_Stays]_vars

(***************************************************************************)
(* crates/proxy/src/green_wait.rs: tasks calling submit,                   *)
(* process_ready_jobs, refresh_intensities and update_region_intensity on  *)
(* one GreenWaitScheduler.  A call is cut where it awaits a lock or an     *)
(* answer; what it does between two such points is one step.  Durations   *)
(* are in seconds.                                                         *)
(***************************************************************************)
MaxTasks == 2           \* tasks that call the scheduler

MaxJobs == 2            \* DeferredJobs created

MaxQueueSize == 1       \* GreenWaitConfig::max_queue_size of the run

MaxSubmitTime == 1      \* the latest time at which a job is created

GreenValidFor == 1      \* CarbonIntensity::valid_for_seconds of the samples

Tasks == 1..MaxTasks

\* the priorities, regions and thresholds of the jobs submitted, and the
\* intensities the provider reports
JobPriorities == {"Critical", "Normal"}

Regions == {"eu"}

Thresholds == {150}

Intensities == {100, 200}

\* JobPriority::max_wait_duration
MaxWaitDuration(priority) ==
    CASE priority = "Critical" -> 0
      [] priority = "High" -> 5 * 60
      [] priority = "Normal" -> 30 * 60
      [] priority = "Low" -> 2 * 60 * 60
      [] priority = "Background" -> 24 * 60 * 60

\* the times the clock shows: the times of creation, and for each of them
\* and each max_wait the time at which max_wait has elapsed and the second
\* after
TimePoints ==
    (0..MaxSubmitTime)
        \cup { s + MaxWaitDuration(p) + e :
                 s \in 0..MaxSubmitTime, p \in JobPriorities \ {"Critical"}, e \in 0..1 }

\* DeferredJob::new at time t
DeferredJobNew(id, priority, region, carbon_threshold, t) ==
    [id |-> id, priority |-> priority, region |-> region, submitted_at |-> t,
     carbon_threshold |-> carbon_threshold]

\* is_expired as it would be if no job ever expired
IsExpiredNever(job, t) == FALSE

\* DeferredJob::is_expired at time t
IsExpired(job, t) == t - job.submitted_at > MaxWaitDuration(job.priority)

\* the test of the intensity as it would be if a region without a known
\* intensity counted as green
IsGreenOrUnknown(job, intensities) ==
    \/ job.region \notin DOMAIN intensities
    \/ intensities[job.region] <= job.carbon_threshold

\* the intensity of the job's region is known and within its threshold
IsGreen(job, intensities) ==
    /\ job.region \in DOMAIN intensities
    /\ intensities[job.region] <= job.carbon_threshold

\* process_ready_jobs as it would be if the jobs not ready were dropped
RemainingNone(q, intensities, t) == <<>>

\* ready_jobs as it would be if the expired jobs were returned ahead of the
\* green ones
ReadyJobsExpiredFirst(q, intensities, t) ==
    LET Expired(job) == IsExpired(job, t)
        Green(job) == ~IsExpired(job, t) /\ IsGreen(job, intensities)
    IN  SelectSeq(q, Expired) \o SelectSeq(q, Green)

\* process_ready_jobs: ready_jobs and remaining_jobs after the loop
ReadyJobs(q, intensities, t) ==
    LET Ready(job) == IsExpired(job, t) \/ IsGreen(job, intensities)
    IN  SelectSeq(q, Ready)

RemainingJobs(q, intensities, t) ==
    LET Waits(job) == ~(IsExpired(job, t) \/ IsGreen(job, intensities))
    IN  SelectSeq(q, Waits)

EmptyMap == [x \in {} |-> 0]

NoCall == [pc |-> "idle", job |-> <<>>, regions |-> {}, region |-> "", value |-> 0]

ScheduleResult(tag, position) == [tag |-> tag, position |-> position]

\* the ids of a sequence of jobs
Ids(q) == [i \in DOMAIN q |-> q[i].id]

\* GreenWaitScheduler::new
GreenWaitNew(enabled) ==
    /\ config = [enabled |-> enabled, max_queue_size |-> MaxQueueSize]
    /\ now = 0
    /\ queue = <<>>
    /\ queue_lock = 0
    /\ region_intensity = EmptyMap
    /\ intensity_cache = EmptyMap
    /\ calls = [t \in Tasks |-> NoCall]
    /\ jobs_created = 0
    /\ submit_result = EmptyMap
    /\ returned = <<>>
    /\ intensity_at = EmptyMap

\* the clock moves on
Tick(t) ==
    /\ t \in TimePoints
    /\ t > now
    /\ now' = t
    /\ UNCHANGED <<config, queue, queue_lock, region_intensity, intensity_cache, calls,
                   jobs_created, submit_result, returned>>
    /\ GreenWaitOthers

\* submit, lines 168-189, as it would be if the priority of the job were
\* looked at before config.enabled
SubmitBeginCriticalFirst(task, priority, region, carbon_threshold) ==
    /\ calls[task].pc = "idle"
    /\ jobs_created < MaxJobs
    /\ now <= MaxSubmitTime
    /\ jobs_created' = jobs_created + 1
    /\ LET job == DeferredJobNew(jobs_created + 1, priority, region, carbon_threshold, now)
           done(tag) == /\ submit_result' = Insert(submit_result, job.id, ScheduleResult(tag, 0))
                        /\ UNCHANGED calls
       IN  IF priority = "Critical" THEN done("ExecutedImmediately")
           ELSE IF ~config.enabled THEN done("Disabled")
           ELSE IF IsGreen(job, region_intensity) THEN done("ExecutedImmediately")
           ELSE /\ calls' = [calls EXCEPT ![task] = [NoCall EXCEPT !.pc = "submit", !.job = <<job>>]]
                /\ UNCHANGED submit_result
    /\ UNCHANGED <<config, now, queue, queue_lock, region_intensity, intensity_cache, returned>>
    /\ GreenWaitOthers

\* DeferredJob::new and submit, lines 168-189: up to the lock of the queue
SubmitBegin(task, priority, region, carbon_threshold) ==
    /\ calls[task].pc = "idle"
    /\ jobs_created < MaxJobs
    /\ now <= MaxSubmitTime
    /\ jobs_created' = jobs_created + 1
    /\ LET job == DeferredJobNew(jobs_created + 1, priority, region, carbon_threshold, now)
           done(tag) == /\ submit_result' = Insert(submit_result, job.id, ScheduleResult(tag, 0))
                        /\ UNCHANGED calls
       IN  IF ~config.enabled THEN done("Disabled")
           ELSE IF priority = "Critical" THEN done("ExecutedImmediately")
           ELSE IF IsGreen(job, region_intensity) THEN done("ExecutedImmediately")
           ELSE /\ calls' = [calls EXCEPT ![task] = [NoCall EXCEPT !.pc = "submit", !.job = <<job>>]]
                /\ UNCHANGED submit_result
    /\ UNCHANGED <<config, now, queue, queue_lock, region_intensity, intensity_cache, returned>>
    /\ GreenWaitOthers

\* submit, lines 192-203, as it would be if the length of the queue were
\* not compared with max_queue_size
SubmitQueueUnchecked(task) ==
    /\ calls[task].pc = "submit"
    /\ queue_lock = 0
    /\ LET job == calls[task].job[1] IN
       /\ submit_result' = Insert(submit_result, job.id, ScheduleResult("Queued", Len(queue)))
       /\ queue' = Append(queue, job)
    /\ calls' = [calls EXCEPT ![task] = NoCall]
    /\ UNCHANGED <<config, now, queue_lock, region_intensity, intensity_cache,
                   jobs_created, returned>>
    /\ GreenWaitOthers

\* submit, lines 192-203: with the lock of the queue
SubmitQueue(task) ==
    /\ calls[task].pc = "submit"
    /\ queue_lock = 0
    /\ LET job == calls[task].job[1] IN
       IF Len(queue) >= config.max_queue_size
       THEN /\ submit_result' = Insert(submit_result, job.id, ScheduleResult("QueueFull", 0))
            /\ UNCHANGED queue
       ELSE /\ submit_result' = Insert(submit_result, job.id, ScheduleResult("Queued", Len(queue)))
            /\ queue' = Append(queue, job)
    /\ calls' = [calls EXCEPT ![task] = NoCall]
    /\ UNCHANGED <<config, now, queue_lock, region_intensity, intensity_cache,
                   jobs_created, returned>>
    /\ GreenWaitOthers

\* update_region_intensity
UpdateRegionIntensity(region, intensity) ==
    /\ region_intensity' = Insert(region_intensity, region, intensity)
    /\ UNCHANGED <<config, now, queue, queue_lock, intensity_cache, calls,
                   jobs_created, submit_result, returned>>
    /\ GreenWaitOthers

\* process_ready_jobs, line 220: the lock of the queue is taken
SweepBegin(task) ==
    /\ calls[task].pc = "idle"
    /\ queue_lock = 0
    /\ queue_lock' = task
    /\ calls' = [calls EXCEPT ![task] = [NoCall EXCEPT !.pc = "sweep"]]
    /\ UNCHANGED <<config, now, queue, region_intensity, intensity_cache,
                   jobs_created, submit_result, returned>>
    /\ GreenWaitOthers

\* process_ready_jobs, lines 221-257: the sweep, under both locks
SweepRun(task) ==
    /\ calls[task].pc = "sweep"
    /\ queue_lock = task
    /\ returned' = returned \o Ids(ReadyJobs(queue, region_intensity, now))
    /\ queue' = RemainingJobs(queue, region_intensity, now)
    /\ queue_lock' = 0
    /\ calls' = [calls EXCEPT ![task] = NoCall]
    /\ UNCHANGED <<config, now, region_intensity, intensity_cache, jobs_created, submit_result>>
    /\ GreenWaitOthers

\* refresh_intensities, lines 264-272: the regions of the queued jobs
RefreshBegin(task) ==
    /\ calls[task].pc = "idle"
    /\ queue_lock = 0
    /\ LET regions == {queue[i].region : i \in DOMAIN queue} IN
       calls' = [calls EXCEPT ![task] =
                    IF regions = {} THEN NoCall
                    ELSE [NoCall EXCEPT !.pc = "lookup", !.regions = regions]]
    /\ UNCHANGED <<config, now, queue, queue_lock, region_intensity, intensity_cache,
                   jobs_created, submit_result, returned>>
    /\ GreenWaitOthers

\* refresh_intensities, lines 276 and 279-280: the value of the next region,
\* from the cache or, when the cache has none that is still valid, from the
\* provider; answer is "cached", "fetched" or "failed"
RefreshLookup(task, region, answer, intensity) ==
    /\ calls[task].pc = "lookup"
    /\ region \in calls[task].regions
    /\ LET rest == calls[task].regions \ {region}
           skip == [NoCall EXCEPT !.pc = IF rest = {} THEN "idle" ELSE "lookup",
                                  !.regions = rest]
           take(v) == [NoCall EXCEPT !.pc = "update", !.regions = rest,
                                     !.region = region, !.value = v]
       IN  CASE answer = "cached" ->
                  /\ region \in DOMAIN intensity_cache
                  /\ intensity = intensity_cache[region]
                  /\ calls' = [calls EXCEPT ![task] = take(intensity_cache[region])]
                  /\ UNCHANGED intensity_cache
             [] answer = "fetched" ->
                  /\ intensity_cache' = Insert(intensity_cache, region, intensity)
                  /\ calls' = [calls EXCEPT ![task] = take(intensity)]
             [] answer = "failed" ->
                  /\ intensity = 0
                  /\ intensity_cache' = Remove(intensity_cache, region)
                  /\ calls' = [calls EXCEPT ![task] = skip]
    /\ UNCHANGED <<config, now, queue, queue_lock, region_intensity, jobs_created,
                   submit_result, returned>>
    /\ GreenWaitOthers

\* refresh_intensities, lines 277 and 281: update_region_intensity
RefreshUpdate(task) ==
    /\ calls[task].pc = "update"
    /\ region_intensity' = Insert(region_intensity, calls[task].region, calls[task].value)
    /\ calls' = [calls EXCEPT ![task] =
                    [NoCall EXCEPT !.pc = IF calls[task].regions = {} THEN "idle" ELSE "lookup",
                                   !.regions = calls[task].regions]]
    /\ UNCHANGED <<config, now, queue, queue_lock, intensity_cache, jobs_created,
                   submit_result, returned>>
    /\ GreenWaitOthers

GreenWaitNext ==
    \/ \E t \in TimePoints : Tick(t)
    \/ \E task \in Tasks, priority \in JobPriorities, region \in Regions,
          carbon_threshold \in Thresholds :
          SubmitBegin(task, priority, region, carbon_threshold)
    \/ \E task \in Tasks : SubmitQueue(task)
    \/ \E region \in Regions, intensity \in Intensities : UpdateRegionIntensity(region, intensity)
    \/ \E task \in Tasks : SweepBegin(task)
    \/ \E task \in Tasks : SweepRun(task)
    \/ \E task \in Tasks : RefreshBegin(task)
    \/ \E task \in Tasks, region \in Regions, answer \in {"cached", "fetched", "failed"},
          intensity \in Intensities \cup {0} :
          RefreshLookup(task, region, answer, intensity)
    \/ \E task \in Tasks : RefreshUpdate(task)

\* update_region_intensity, with the time of the write kept
UpdateRegionIntensityAt(region, intensity) ==
    /\ region_intensity' = Insert(region_intensity, region, intensity)
    /\ intensity_at' = Insert(intensity_at, region, now)
    /\ UNCHANGED <<config, now, queue, queue_lock, intensity_cache, calls,
                   jobs_created, submit_result, returned>>
    /\ GreenWriteOthers

\* refresh_intensities, lines 277 and 281: update_region_intensity, with the
\* time of the write kept
RefreshUpdateAt(task) ==
    /\ calls[task].pc = "update"
    /\ region_intensity' = Insert(region_intensity, calls[task].region, calls[task].value)
    /\ intensity_at' = Insert(intensity_at, calls[task].region, now)
    /\ calls' = [calls EXCEPT ![task] =
                    [NoCall EXCEPT !.pc = IF calls[task].regions = {} THEN "idle" ELSE "lookup",
                                   !.regions = calls[task].regions]]
    /\ UNCHANGED <<config, now, queue, queue_lock, intensity_cache, jobs_created,
                   submit_result, returned>>
    /\ GreenWriteOthers

\* the scheduler, the time of each write of an intensity kept
GreenStaleNext ==
    \/ \E t \in TimePoints : Tick(t)
    \/ \E task \in Tasks, priority \in JobPriorities, region \in Regions,
          carbon_threshold \in Thresholds :
          SubmitBegin(task, priority, region, carbon_threshold)
    \/ \E task \in Tasks : SubmitQueue(task)
    \/ \E region \in Regions, intensity \in Intensities :
          UpdateRegionIntensityAt(region, intensity)
    \/ \E task \in Tasks : SweepBegin(task)
    \/ \E task \in Tasks : SweepRun(task)
    \/ \E task \in Tasks : RefreshBegin(task)
    \/ \E task \in Tasks, region \in Regions, answer \in {"cached", "fetched", "failed"},
          intensity \in Intensities \cup {0} :
          RefreshLookup(task, region, answer, intensity)
    \/ \E task \in Tasks : RefreshUpdateAt(task)

\* CarbonIntensity::is_valid at time t of a sample taken when the intensity
\* of the region was last written
IntensityValid(region, t) ==
    /\ region \in DOMAIN intensity_at
    /\ t < intensity_at[region] + GreenValidFor

\* C40: submit returns ExecutedImmediately for a job that is not Critical
\* only when the intensity of its region was written so lately that its
\* sample has not expired
C40_Step ==
    \A task \in Tasks, priority \in JobPriorities \ {"Critical"}, region \in Regions,
       carbon_threshold \in Thresholds :
        (/\ SubmitBegin(task, priority, region, carbon_threshold)
         /\ jobs_created + 1 \in DOMAIN submit_result'
         /\ submit_result'[jobs_created + 1].tag = "ExecutedImmediately")
            => IntensityValid(region, now)

C40_NoStaleImmediate == [][C40_Step]_vars

\* the scheduling the liveness of the scheduler rests on: the clock moves
\* on, a task that is in a call goes on with it (the Mutex of tokio is
\* handed over in the order of the requests), and process_ready_jobs keeps
\* being called
GreenWaitFairness ==
    /\ WF_vars(\E t \in TimePoints : Tick(t))
    /\ \A task \in Tasks :
          /\ SF_vars(SubmitQueue(task))
          /\ SF_vars(SweepBegin(task))
          /\ WF_vars(SweepRun(task))
          /\ WF_vars(RefreshUpdate(task))
          /\ WF_vars(\E region \in Regions, answer \in {"cached", "fetched", "failed"},
                        intensity \in Intensities \cup {0} :
                        RefreshLookup(task, region, answer, intensity))

(***************************************************************************)
(* Properties of the scheduler                                             *)
(***************************************************************************)
\* the number of places of the sequence ids that hold id
Count(ids, id) == Cardinality({i \in DOMAIN ids : ids[i] = id})

InQueue(id) == Count(Ids(queue), id) > 0

WasReturned(id) == Count(returned, id) > 0

\* what a cancellation of job id does: the job leaves the queue, the other
\* jobs stay in their order, and no job is returned
Cancelled(id) ==
    LET Others(job) == job.id # id IN
    /\ queue' = SelectSeq(queue, Others)
    /\ returned' = returned

\* C32: a queued job can be cancelled by its id: whenever job id is in the
\* queue and no call holds the lock of the queue, the scheduler has a step
\* that removes it from the queue without returning it
C32_CancelRemoves ==
    \A id \in 1..MaxJobs :
        (InQueue(id) /\ queue_lock = 0) => ENABLED (GreenWaitNext /\ Cancelled(id))

\* C9: a job for which submit returned Queued is in the queue once or was
\* returned once by process_ready_jobs, never both and never neither; a
\* job for which submit returned anything else, or has not returned, is in
\* neither
C9_NoJobLostOrDuplicated ==
    \A id \in 1..jobs_created :
        Count(Ids(queue), id) + Count(returned, id)
            = IF id \in DOMAIN submit_result /\ submit_result[id].tag = "Queued" THEN 1 ELSE 0

\* two jobs were queued; the first was returned by a sweep, the second is
\* in the queue while a process_ready_jobs call holds the lock of the queue
\* and the other task is inside refresh_intensities
C9_Witness ==
    /\ \E a, b \in DOMAIN submit_result :
          /\ a # b
          /\ submit_result[a].tag = "Queued"
          /\ submit_result[b].tag = "Queued"
          /\ Count(returned, a) = 1
          /\ InQueue(b)
    /\ \E task \in Tasks : calls[task].pc = "sweep"
    /\ \E task \in Tasks : calls[task].pc \in {"lookup", "update"}

\* a step that is the sweep of a process_ready_jobs call
IsSweep == \E task \in Tasks : calls[task].pc = "sweep" /\ calls'[task].pc = "idle"

\* C10 as stated: a queued job is eventually returned, and a sweep returns
\* every job whose max_wait has elapsed (elapsed >= max_wait)
C10_SweepAtMaxWait ==
    IsSweep =>
        \A i \in DOMAIN queue :
            (now - queue[i].submitted_at >= MaxWaitDuration(queue[i].priority))
                => (Count(returned', queue[i].id) = 1 /\ Count(Ids(queue'), queue[i].id) = 0)

C10_SweepPastMaxWait ==
    IsSweep =>
        \A i \in DOMAIN queue :
            (now - queue[i].submitted_at > MaxWaitDuration(queue[i].priority))
                => (Count(returned', queue[i].id) = 1 /\ Count(Ids(queue'), queue[i].id) = 0)

C11_QueueBounded == Len(queue) <= config.max_queue_size

\* the queue is full, a submit call that found it full was turned away
\* with QueueFull, and a process_ready_jobs call holds the lock of the queue
C11_Witness ==
    /\ Len(queue) = config.max_queue_size
    /\ \E id \in DOMAIN submit_result : submit_result[id].tag = "QueueFull"
    /\ \E task \in Tasks : calls[task].pc = "sweep"

\* C12: submit answers Disabled when the scheduler is disabled; else
\* ExecutedImmediately for a Critical job; else ExecutedImmediately when the
\* intensity of the region of the job is known and at most its
\* carbon_threshold; else, with the lock of the queue, QueueFull when the
\* queue holds max_queue_size jobs; else Queued with the length of the queue
\* as position, the job being appended.  No other outcome changes the queue.
C12_BeforeLock ==
    \A task \in Tasks, priority \in JobPriorities, region \in Regions,
       carbon_threshold \in Thresholds :
        SubmitBegin(task, priority, region, carbon_threshold) =>
            LET id == jobs_created + 1
                answered(tag) == /\ id \in DOMAIN submit_result'
                                 /\ submit_result'[id].tag = tag
                                 /\ calls'[task].pc = "idle"
            IN  /\ queue' = queue
                /\ IF ~config.enabled THEN answered("Disabled")
                   ELSE IF priority = "Critical" THEN answered("ExecutedImmediately")
                   ELSE IF /\ region \in DOMAIN region_intensity
                           /\ region_intensity[region] <= carbon_threshold
                        THEN answered("ExecutedImmediately")
                   ELSE /\ id \notin DOMAIN submit_result'
                        /\ calls'[task].pc = "submit"

C12_WithLock ==
    \A task \in Tasks :
        SubmitQueue(task) =>
            LET job == calls[task].job[1] IN
            /\ job.id \in DOMAIN submit_result'
            /\ IF Len(queue) >= config.max_queue_size
               THEN /\ submit_result'[job.id].tag = "QueueFull"
                    /\ queue' = queue
               ELSE /\ submit_result'[job.id] = [tag |-> "Queued", position |-> Len(queue)]
                    /\ queue' = queue \o <<job>>

C12_SubmitPrecedence == [][C12_BeforeLock /\ C12_WithLock]_vars

\* with the intensity of the region known and above the threshold, one job
\* was queued at position 0 and the next one turned away with QueueFull
C12_Witness ==
    /\ config.enabled
    /\ DOMAIN submit_result = {1, 2}
    /\ submit_result[1] = [tag |-> "Queued", position |-> 0]
    /\ submit_result[2].tag = "QueueFull"
    /\ "eu" \in DOMAIN region_intensity
    /\ region_intensity["eu"] = 200
    /\ Ids(queue) = <<1>>

(***************************************************************************)
(* process_ready_jobs on queues of several jobs: the scheduler after the   *)
(* jobs of a queue were submitted at time 0, before any intensity was      *)
(* known, and the clock has moved on.                                      *)
(***************************************************************************)
MaxSweepQueue == 4      \* the jobs in the queue, and max_queue_size

SweepPriorities == {"High", "Normal"}

SweepRegions == {"eu", "us"}

\* the time of the first sweep: at once, at the max_wait of High and of
\* Normal, and a second after each
SweepTimes == {0, 5 * 60, 5 * 60 + 1, 30 * 60, 30 * 60 + 1}

\* the queues of n jobs, with ids 1..n in the order of their submission
SweepQueues(n) ==
    { [i \in 1..n |-> DeferredJobNew(i, f[i][1], f[i][2], 150, 0)] :
        f \in [1..n -> SweepPriorities \X SweepRegions] }

GreenSweepNew ==
    /\ config = [enabled |-> TRUE, max_queue_size |-> MaxSweepQueue]
    /\ now \in SweepTimes
    /\ \E n \in 0..MaxSweepQueue : queue \in SweepQueues(n)
    /\ queue_lock = 0
    /\ region_intensity = EmptyMap
    /\ intensity_cache = EmptyMap
    /\ calls = [t \in Tasks |-> NoCall]
    /\ jobs_created = Len(queue)
    /\ submit_result = [i \in DOMAIN queue |-> ScheduleResult("Queued", i - 1)]
    /\ returned = <<>>
    /\ intensity_at = EmptyMap

GreenSweepNext ==
    \/ \E region \in SweepRegions, intensity \in Intensities :
          UpdateRegionIntensity(region, intensity)
    \/ \E task \in Tasks : SweepBegin(task)
    \/ \E task \in Tasks : SweepRun(task)

\* the ids a sweep step adds to the jobs returned
NewlyReturned == SubSeq(returned', Len(returned) + 1, Len(returned'))

\* the place of id in the sequence ids
Pos(ids, id) == CHOOSE i \in DOMAIN ids : ids[i] = id

\* C13: process_ready_jobs returns a job of the queue exactly when more than
\* the max_wait of its priority has passed since its submission or the
\* intensity of its region is known and at most its carbon_threshold; every
\* other job, and so every job not expired whose region has no known
\* intensity, is in the queue afterwards
C13_Sweep ==
    IsSweep =>
        \A i \in DOMAIN queue :
            LET job == queue[i]
                expired == now - job.submitted_at > MaxWaitDuration(job.priority)
                green == /\ job.region \in DOMAIN region_intensity
                         /\ region_intensity[job.region] <= job.carbon_threshold
            IN  /\ Count(NewlyReturned, job.id) = (IF expired \/ green THEN 1 ELSE 0)
                /\ Count(Ids(queue'), job.id) = (IF expired \/ green THEN 0 ELSE 1)

C13_ReturnedIffExpiredOrGreen == [][C13_Sweep]_vars

\* one second after the max_wait of High, with 200 known for eu and nothing
\* for us, a sweep returned the second job of three, a High one, and left
\* in the queue a Normal job of us and a Normal job of eu
C13_Witness ==
    /\ now = 5 * 60 + 1
    /\ DOMAIN region_intensity = {"eu"}
    /\ region_intensity["eu"] = 200
    /\ returned = <<2>>
    /\ Len(queue) = 2
    /\ queue[1] = DeferredJobNew(1, "Normal", "us", 150, 0)
    /\ queue[2] = DeferredJobNew(3, "Normal", "eu", 150, 0)

\* C14: the jobs process_ready_jobs returns are in the order they had in the
\* queue, whatever their priorities, and so are the jobs it leaves in the
\* queue
C14_Sweep ==
    IsSweep =>
        /\ SubSeq(returned', 1, Len(returned)) = returned
        /\ \A i \in DOMAIN NewlyReturned : Count(Ids(queue), NewlyReturned[i]) = 1
        /\ \A i, j \in DOMAIN NewlyReturned :
              i < j => Pos(Ids(queue), NewlyReturned[i]) < Pos(Ids(queue), NewlyReturned[j])
        /\ \A i \in DOMAIN queue' : Count(Ids(queue), queue'[i].id) = 1
        /\ \A i, j \in DOMAIN queue' :
              i < j => Pos(Ids(queue), queue'[i].id) < Pos(Ids(queue), queue'[j].id)

C14_QueueOrderKept == [][C14_Sweep]_vars

\* a sweep returned the first and the third job of a queue of four, a green
\* Normal job ahead of an expired High job, and left the second and the
\* fourth
C14_Witness ==
    /\ now = 5 * 60 + 1
    /\ returned = <<1, 3>>
    /\ Ids(queue) = <<2, 4>>
    /\ submit_result[1].tag = "Queued"
    /\ DOMAIN region_intensity = {"eu"}
    /\ region_intensity["eu"] = 100
    /\ \A i \in DOMAIN queue : queue[i].priority = "Normal" /\ queue[i].region = "us"

(***************************************************************************)
(* crates/proxy/src/carbon_router.rs: one CarbonRouter, its                *)
(* CarbonIntensityCache and the signal source.  An f64 is a record         *)
(* [nan, v]: NaN, or the number v.  refresh_carbon_data holds the write    *)
(* lock of region_scores from its start to its end, so the readers run     *)
(* only while no refresh is in progress.  Times are in units of the        *)
(* validity of a sample.                                                   *)
(***************************************************************************)
MaxRegions == 2         \* register_region calls

MaxRouterTime == 3      \* the latest time the clock of the router shows

SampleValidFor == 1     \* CarbonIntensity::valid_for_seconds, in units of time

RouterCacheTtl == 2     \* CarbonIntensityCache::new(ttl_seconds), in units of time

RouterRegionIds == {"eu", "us"}

F(v) == [nan |-> FALSE, v |-> v]

NaN == [nan |-> TRUE, v |-> 0]

\* f64: a <= b, a < b, a > b; false when either is NaN
FLe(a, b) == ~a.nan /\ ~b.nan /\ a.v <= b.v

FLt(a, b) == ~a.nan /\ ~b.nan /\ a.v < b.v

FGt(a, b) == ~a.nan /\ ~b.nan /\ a.v > b.v

\* a.partial_cmp(&b).unwrap_or(Ordering::Equal)
PartialCmp(a, b) ==
    IF a.nan \/ b.nan THEN "Equal"
    ELSE IF a.v < b.v THEN "Less"
    ELSE IF a.v > b.v THEN "Greater"
    ELSE "Equal"

\* the intensities the signal source reports
RouterIntensities == {F(-50), F(50), F(350), F(600), NaN}

\* the timestamps the signal source gives a sample at time t
SampleTimestamps(t) == {ts \in {t - 1, t} : ts >= 0}

\* CarbonRouterConfig of the run; carbon_weight in hundredths
RouterConfig == [threshold |-> F(200), max_intensity |-> F(500), carbon_weight |-> 50]

\* CarbonIntensity
CarbonIntensity(value, ts) == [value |-> value, ts |-> ts, valid_for |-> SampleValidFor]

\* CarbonIntensity::is_valid at time t
IsValid(sample, t) == t < sample.ts + sample.valid_for

\* CarbonIntensityCache::get at time t: the entry, when there is one that
\* the cache has not yet dropped (time_to_live) and that is still valid
CacheHit(cache, id, t) ==
    /\ id \in DOMAIN cache
    /\ t - cache[id].inserted_at < RouterCacheTtl
    /\ IsValid(cache[id].sample, t)

\* CarbonIntensityCache::put at time t
CachePut(cache, id, sample, t) == Insert(cache, id, [sample |-> sample, inserted_at |-> t])

\* calculate_score, in thousandths: (intensity / max_intensity).min(1.0);
\* f64::min returns the other operand when one is NaN
CalculateScore(cfg, intensity) ==
    IF intensity.nan \/ cfg.max_intensity.nan THEN 1000
    ELSE Min((intensity.v * 1000) \div cfg.max_intensity.v, 1000)

\* the RegionScore refresh_carbon_data stores
RegionScore(cfg, region_id, intensity) ==
    [region_id |-> region_id,
     carbon_intensity |-> intensity,
     score |-> CalculateScore(cfg, intensity),
     recommended |-> FLt(intensity, cfg.threshold)]

\* what a call on the router returned
RouterAnswer(op, some, region, weight) ==
    [op |-> op, some |-> some, region |-> region, weight |-> weight, sorted |-> <<>>]

\* no refresh_carbon_data call.  failed and dirty are history: a fetch of
\* the call failed, and the call has changed a score
NoRefresh == [pc |-> "idle", todo |-> <<>>, failed |-> FALSE, dirty |-> FALSE]

\* CarbonRouter::new
RouterNew ==
    /\ router_config = RouterConfig
    /\ router_now = 0
    /\ router_regions = <<>>
    /\ region_scores = EmptyMap
    /\ score_samples = EmptyMap
    /\ router_cache = EmptyMap
    /\ router_refresh = NoRefresh
    /\ router_answer = RouterAnswer("new", FALSE, "", 0)

\* the clock moves on
RouterTick ==
    /\ router_now < MaxRouterTime
    /\ router_now' = router_now + 1
    /\ UNCHANGED <<router_config, router_regions, region_scores, score_samples,
                   router_cache, router_refresh, router_answer>>
    /\ RouterOthers

\* register_region
RegisterRegion(region_id) ==
    /\ Len(router_regions) < MaxRegions
    /\ router_regions' = Append(router_regions, region_id)
    /\ UNCHANGED <<router_config, router_now, region_scores, score_samples,
                   router_cache, router_refresh, router_answer>>
    /\ RouterOthers

\* refresh_carbon_data, lines 104-105: the regions are copied and the write
\* lock of region_scores is taken
RefreshCarbonDataBegin ==
    /\ router_refresh.pc = "idle"
    /\ router_refresh' = [pc |-> "running", todo |-> router_regions, failed |-> FALSE,
                          dirty |-> FALSE]
    /\ UNCHANGED <<router_config, router_now, router_regions, region_scores,
                   score_samples, router_cache, router_answer>>
    /\ RouterOthers

\* refresh_carbon_data, lines 107-145: one turn of the loop.  fetched says
\* whether the signal source answers, sample is its answer.
RefreshCarbonDataRegion(fetched, sample) ==
    /\ router_refresh.pc = "running"
    /\ router_refresh.todo # <<>>
    /\ LET id == Head(router_refresh.todo)
           store(cached) ==
               /\ region_scores' =
                     Insert(region_scores, id, RegionScore(router_config, id, cached.value))
               /\ score_samples' = Insert(score_samples, id, cached)
       IN  IF CacheHit(router_cache, id, router_now)
           THEN /\ fetched
                /\ sample = router_cache[id].sample
                /\ store(router_cache[id].sample)
                /\ UNCHANGED router_cache
           ELSE IF fetched
           THEN /\ router_cache' = CachePut(router_cache, id, sample, router_now)
                /\ store(sample)
           ELSE /\ sample = CarbonIntensity(NaN, router_now)
                /\ router_cache' = Remove(router_cache, id)
                /\ UNCHANGED <<region_scores, score_samples>>
    /\ router_refresh' =
          [router_refresh EXCEPT
              !.todo = Tail(router_refresh.todo),
              !.failed = @ \/ (~fetched /\ ~CacheHit(router_cache, Head(router_refresh.todo),
                                                    router_now)),
              !.dirty = @ \/ region_scores' # region_scores]
    /\ UNCHANGED <<router_config, router_now, router_regions, router_answer>>
    /\ RouterOthers

\* refresh_carbon_data, line 148: the lock is released, Ok(()) is returned
RefreshCarbonDataEnd ==
    /\ router_refresh.pc = "running"
    /\ router_refresh.todo = <<>>
    /\ router_refresh' = NoRefresh
    /\ router_answer' = RouterAnswer("refresh_carbon_data", TRUE, "", 0)
    /\ UNCHANGED <<router_config, router_now, router_regions, region_scores,
                   score_samples, router_cache>>
    /\ RouterOthers

\* the orders in which a HashMap may yield the keys in ids
Orders(ids) ==
    { f \in [1..Cardinality(ids) -> ids] : \A i, j \in DOMAIN f : i # j => f[i] # f[j] }

\* the filter of select_greenest_region as it would be if every scored
\* region passed it
QualifiesAlways(cfg, score) == TRUE

\* select_greenest_region, line 168: the filter
Qualifies(cfg, score) == FLe(score.carbon_intensity, cfg.max_intensity)

\* Iterator::min_by over the ids of rest, acc being the least so far: the
\* first of several least elements is kept
RECURSIVE MinBy(_, _, _)
MinBy(acc, rest, scores) ==
    IF rest = <<>> THEN acc
    ELSE MinBy(IF PartialCmp(scores[acc].carbon_intensity,
                             scores[Head(rest)].carbon_intensity) = "Greater"
               THEN Head(rest) ELSE acc,
               Tail(rest), scores)

\* select_greenest_region; order is the order in which the HashMap yields
\* its entries
SelectGreenestRegion(order) ==
    /\ router_refresh.pc = "idle"
    /\ order \in Orders(DOMAIN region_scores)
    /\ LET keep(id) == Qualifies(router_config, region_scores[id])
           filtered == SelectSeq(order, keep)
       IN  router_answer' =
               IF filtered = <<>>
               THEN RouterAnswer("select_greenest_region", FALSE, "", 0)
               ELSE RouterAnswer("select_greenest_region", TRUE,
                                 MinBy(Head(filtered), Tail(filtered), region_scores), 0)
    /\ UNCHANGED <<router_config, router_now, router_regions, region_scores,
                   score_samples, router_cache, router_refresh>>
    /\ RouterOthers

\* the weight as it would be if the score were not inverted
WeightNotInverted(cfg, score) ==
    IF FGt(score.carbon_intensity, cfg.max_intensity) THEN 0
    ELSE Max(Max((score.score * 100 * cfg.carbon_weight) \div (1000 * 100), 0), 1)

\* the weight of get_routing_weight for a score:
\* ((1.0 - score) * 100.0 * carbon_weight) as u32, at least 1
Weight(cfg, score) ==
    IF FGt(score.carbon_intensity, cfg.max_intensity) THEN 0
    ELSE Max(Max(((1000 - score.score) * 100 * cfg.carbon_weight) \div (1000 * 100), 0), 1)

\* get_routing_weight
GetRoutingWeight(region_id) ==
    /\ router_refresh.pc = "idle"
    /\ router_answer' =
          IF region_id \in DOMAIN region_scores
          THEN RouterAnswer("get_routing_weight", TRUE, region_id,
                            Weight(router_config, region_scores[region_id]))
          ELSE RouterAnswer("get_routing_weight", FALSE, region_id, 50)
    /\ UNCHANGED <<router_config, router_now, router_regions, region_scores,
                   score_samples, router_cache, router_refresh>>
    /\ RouterOthers

\* slice::sort_by on a short slice, one insertion: s moves left past every
\* element it is less than
RECURSIVE InsertTail(_, _)
InsertTail(sorted, s) ==
    IF sorted = <<>> THEN <<s>>
    ELSE IF PartialCmp(s.carbon_intensity, sorted[Len(sorted)].carbon_intensity) = "Less"
    THEN Append(InsertTail(SubSeq(sorted, 1, Len(sorted) - 1), s), sorted[Len(sorted)])
    ELSE Append(sorted, s)

\* slice::sort_by with partial_cmp, Equal where partial_cmp gives None
RECURSIVE SortBy(_)
SortBy(values) ==
    IF values = <<>> THEN <<>>
    ELSE InsertTail(SortBy(SubSeq(values, 1, Len(values) - 1)), values[Len(values)])

\* the region_id fields of a Vec<RegionScore>
RegionIds(values) == [i \in DOMAIN values |-> values[i].region_id]

\* get_sorted_regions as it would be if it read the scores without the lock
GetSortedRegionsUnlocked(order) ==
    /\ order \in Orders(DOMAIN region_scores)
    /\ router_answer' =
          [RouterAnswer("get_sorted_regions", TRUE, "", 0) EXCEPT
              !.sorted = RegionIds(SortBy([i \in DOMAIN order |-> region_scores[order[i]]]))]
    /\ UNCHANGED <<router_config, router_now, router_regions, region_scores,
                   score_samples, router_cache, router_refresh>>
    /\ RouterOthers

\* get_sorted_regions; order is the order in which the HashMap yields its
\* values
GetSortedRegions(order) ==
    /\ router_refresh.pc = "idle"
    /\ order \in Orders(DOMAIN region_scores)
    /\ router_answer' =
          [RouterAnswer("get_sorted_regions", TRUE, "", 0) EXCEPT
              !.sorted = RegionIds(SortBy([i \in DOMAIN order |-> region_scores[order[i]]]))]
    /\ UNCHANGED <<router_config, router_now, router_regions, region_scores,
                   score_samples, router_cache, router_refresh>>
    /\ RouterOthers

RouterNext ==
    \/ RouterTick
    \/ \E region_id \in RouterRegionIds : RegisterRegion(region_id)
    \/ RefreshCarbonDataBegin
    \/ \E fetched \in BOOLEAN, value \in RouterIntensities,
          ts \in SampleTimestamps(router_now) :
          RefreshCarbonDataRegion(fetched, CarbonIntensity(value, ts))
    \/ RefreshCarbonDataEnd
    \/ \E order \in Orders(DOMAIN region_scores) : SelectGreenestRegion(order)
    \/ \E region_id \in RouterRegionIds : GetRoutingWeight(region_id)
    \/ \E order \in Orders(DOMAIN region_scores) : GetSortedRegions(order)

(***************************************************************************)
(* Properties of the router                                                *)
(***************************************************************************)
\* the scored regions whose intensity is at most max_intensity
Qualifying ==
    { id \in DOMAIN region_scores :
        /\ ~region_scores[id].carbon_intensity.nan
        /\ region_scores[id].carbon_intensity.v <= router_config.max_intensity.v }

\* C15: select_greenest_region returns no region exactly when no scored
\* region has an intensity of at most max_intensity, and otherwise a scored
\* region whose intensity is at most max_intensity and the least among
\* those of such regions
C15_Select ==
    \A order \in Orders(DOMAIN region_scores) :
        SelectGreenestRegion(order) =>
            /\ router_answer'.some <=> Qualifying # {}
            /\ router_answer'.some =>
                  /\ router_answer'.region \in Qualifying
                  /\ \A id \in Qualifying :
                        region_scores[router_answer'.region].carbon_intensity.v
                            <= region_scores[id].carbon_intensity.v

C15_SelectsMinimum == [][C15_Select]_vars

\* with eu scored 600, above max_intensity, and us scored 350, the router
\* selected us
C15_Witness ==
    /\ DOMAIN region_scores = {"eu", "us"}
    /\ region_scores["eu"].carbon_intensity = F(600)
    /\ region_scores["us"].carbon_intensity = F(350)
    /\ router_answer = RouterAnswer("select_greenest_region", TRUE, "us", 0)

\* the place of a region id in the lexicographic order of the ids
IdRank(id) == IF id = "eu" THEN 1 ELSE 2

\* C29: when several qualifying regions share the least intensity,
\* select_greenest_region returns the one whose id is the smallest in
\* lexicographic order
C29_Select ==
    \A order \in Orders(DOMAIN region_scores) :
        (SelectGreenestRegion(order) /\ router_answer'.some)
            => \A id \in Qualifying :
                  region_scores[id].carbon_intensity.v
                        = region_scores[router_answer'.region].carbon_intensity.v
                     => IdRank(router_answer'.region) <= IdRank(id)

C29_TieToSmallestId == [][C29_Select]_vars

\* C30: every stored RegionScore has a score of at least 0 and at most 1
\* (1000 thousandths)
C30_ScoreInRange ==
    \A id \in DOMAIN region_scores :
        0 <= region_scores[id].score /\ region_scores[id].score <= 1000

\* C31: of two scored regions a and b with intensity(a) < intensity(b) and
\* intensity(b) at most max_intensity, get_routing_weight gives a at least
\* the weight it gives b
C31_WeightsMonotone ==
    \A a, b \in DOMAIN region_scores :
        (/\ FLt(region_scores[a].carbon_intensity, region_scores[b].carbon_intensity)
         /\ FLe(region_scores[b].carbon_intensity, router_config.max_intensity))
            => Weight(router_config, region_scores[a]) >= Weight(router_config, region_scores[b])

\* eu is scored 50 and us 350, both below max_intensity; get_routing_weight
\* has answered 15 for us, and the weight of eu is 45
C31_Witness ==
    /\ DOMAIN region_scores = {"eu", "us"}
    /\ region_scores["eu"].carbon_intensity = F(50)
    /\ region_scores["us"].carbon_intensity = F(350)
    /\ router_answer = RouterAnswer("get_routing_weight", TRUE, "us", 15)
    /\ Weight(router_config, region_scores["eu"]) = 45

\* a refresh has rewritten some of the scores and has regions left to do
PartlyRefreshed ==
    /\ router_refresh.pc = "running"
    /\ router_refresh.todo # <<>>
    /\ router_refresh.dirty

\* a call that reads the scores returns in this step
ReaderReturns ==
    \/ \E order \in Orders(DOMAIN region_scores) : SelectGreenestRegion(order)
    \/ \E order \in Orders(DOMAIN region_scores) : GetSortedRegions(order)
    \/ \E region_id \in RouterRegionIds : GetRoutingWeight(region_id)

\* C39: select_greenest_region, get_sorted_regions and get_routing_weight
\* never read the scores while a refresh has rewritten only some of them:
\* they see the map from before the refresh or the map after all of it
C39_Step == ReaderReturns => ~PartlyRefreshed

C39_ReadersSeeWholeRefresh == [][C39_Step]_vars

\* a reader was answered from two scores, and a refresh has since rewritten
\* one of them and has the other left to do
C39_Witness ==
    /\ PartlyRefreshed
    /\ router_answer.op = "get_sorted_regions"
    /\ Len(router_answer.sorted) = 2
    /\ Len(router_refresh.todo) = 1

\* C37: refresh_carbon_data returns an error when the fetch of at least one
\* registered region failed during the call
C37_Step ==
    (RefreshCarbonDataEnd /\ router_refresh.failed) => ~router_answer'.some

C37_FetchFailureSurfaces == [][C37_Step]_vars

\* a sample is expired at time t
Expired(sample, t) == sample.ts + sample.valid_for < t

\* C16: select_greenest_region does not select, and get_routing_weight does
\* not weight, a region whose score comes from a sample that has expired
C16_Answer ==
    /\ \A order \in Orders(DOMAIN region_scores) :
          (SelectGreenestRegion(order) /\ router_answer'.some)
              => ~Expired(score_samples[router_answer'.region], router_now)
    /\ \A region_id \in RouterRegionIds :
          (GetRoutingWeight(region_id) /\ router_answer'.some)
              => ~Expired(score_samples[region_id], router_now)

C16_NoAnswerFromExpiredSample == [][C16_Answer]_vars

(***************************************************************************)
(* crates/energy/src/cache.rs: tasks calling get_or_fetch on one           *)
(* CarbonIntensityCache.  A call is cut where it awaits the future of      *)
(* fetch_fn.                                                               *)
(***************************************************************************)
MaxFetchTasks == 2      \* tasks that call get_or_fetch

MaxGetOrFetch == 3      \* get_or_fetch calls made

MaxFetchTime == 2       \* the latest time the clock of the cache shows

FetchTasks == 1..MaxFetchTasks

FetchRegionIds == {"eu", "us"}

\* the values the fetch functions return
FetchValues == {F(50), F(350)}

NoFetch == [pc |-> "idle", region |-> "", fetch_no |-> 0]

\* what a get_or_fetch call returned: Ok(value) or Err, and the invocation
\* of fetch_fn of this region it comes from (0: from the cache)
FetchResult(task, region, ok, value, fetch_no) ==
    [task |-> task, region |-> region, ok |-> ok, value |-> value, fetch_no |-> fetch_no]

\* CarbonIntensityCache::new
FetchNew ==
    /\ fetch_cache = EmptyMap
    /\ fetch_now = 0
    /\ fetch_calls = [t \in FetchTasks |-> NoFetch]
    /\ fetch_count = [id \in FetchRegionIds |-> 0]
    /\ fetch_results = <<>>

\* the number of get_or_fetch calls begun
FetchBegun == Len(fetch_results) + Cardinality({t \in FetchTasks : fetch_calls[t].pc = "fetching"})

\* the clock moves on
FetchTick ==
    /\ fetch_now < MaxFetchTime
    /\ fetch_now' = fetch_now + 1
    /\ UNCHANGED <<fetch_cache, fetch_calls, fetch_count, fetch_results>>
    /\ FetchOthers

\* get_or_fetch, lines 69-74: the cache is asked; on a hit the call
\* returns, on a miss fetch_fn is invoked
GetOrFetchBegin(task, region) ==
    /\ fetch_calls[task].pc = "idle"
    /\ FetchBegun < MaxGetOrFetch
    /\ IF CacheHit(fetch_cache, region, fetch_now)
       THEN /\ fetch_results' = Append(fetch_results,
                   FetchResult(task, region, TRUE, fetch_cache[region].sample.value, 0))
            /\ UNCHANGED <<fetch_cache, fetch_calls, fetch_count>>
       ELSE /\ fetch_cache' = Remove(fetch_cache, region)
            /\ fetch_count' = [fetch_count EXCEPT ![region] = @ + 1]
            /\ fetch_calls' = [fetch_calls EXCEPT ![task] =
                   [pc |-> "fetching", region |-> region, fetch_no |-> fetch_count[region] + 1]]
            /\ UNCHANGED fetch_results
    /\ UNCHANGED fetch_now
    /\ FetchOthers

\* get_or_fetch, lines 74-78: the future of fetch_fn is ready; its value is
\* put in the cache and returned, its error is returned
GetOrFetchFetched(task, ok, sample) ==
    /\ fetch_calls[task].pc = "fetching"
    /\ LET region == fetch_calls[task].region IN
       /\ fetch_cache' = IF ok THEN CachePut(fetch_cache, region, sample, fetch_now)
                         ELSE fetch_cache
       /\ fetch_results' = Append(fetch_results,
              FetchResult(task, region, ok, sample.value, fetch_calls[task].fetch_no))
    /\ fetch_calls' = [fetch_calls EXCEPT ![task] = NoFetch]
    /\ UNCHANGED <<fetch_now, fetch_count>>
    /\ FetchOthers

FetchNext ==
    \/ FetchTick
    \/ \E task \in FetchTasks, region \in FetchRegionIds : GetOrFetchBegin(task, region)
    \/ \E task \in FetchTasks, ok \in BOOLEAN, value \in FetchValues :
          GetOrFetchFetched(task, ok, CarbonIntensity(value, fetch_now))

\* C17: of the get_or_fetch calls that run at the same time for a region
\* the cache has no entry for, at most one has invoked fetch_fn
C17_SingleFlight ==
    \A t1, t2 \in FetchTasks :
        (/\ fetch_calls[t1].pc = "fetching"
         /\ fetch_calls[t2].pc = "fetching"
         /\ fetch_calls[t1].region = fetch_calls[t2].region)
            => t1 = t2

(***************************************************************************)
(* crates/proxy/src/lifecycle.rs: tasks calling initiate_shutdown on one   *)
(* LifecycleManager while connections start and finish and the health      *)
(* status is set.  A call is cut where it awaits the lock of the status    *)
(* and where it sleeps.  The unit of time is the 100 ms of one sleep.      *)
(***************************************************************************)
MaxLcTasks == 2         \* tasks that call initiate_shutdown

MaxShutdownCalls == 3   \* initiate_shutdown calls made

MaxStartTime == 1       \* the latest time at which a call takes the lock of the status

DrainTimeout == 2       \* drain_timeout of the run, in polls

MaxStarted == 2         \* connection_started calls

MaxFinished == 2        \* connection_finished calls

MaxReceivers == 2       \* shutdown_receiver calls

\* the clock stops once a drain begun at MaxStartTime has timed out
MaxLcTime == MaxStartTime + DrainTimeout + 1

LcTasks == 1..MaxLcTasks

\* wrapping decrement of a big-endian number
RECURSIVE DecBe(_)
DecBe(c) ==
    IF c = <<>> THEN <<>>
    ELSE LET n == Len(c) IN
         IF c[n] = 0 THEN DecBe(SubSeq(c, 1, n - 1)) \o <<255>>
         ELSE SubSeq(c, 1, n - 1) \o <<c[n] - 1>>

\* AtomicBool::swap as it would be if it always returned false
SwapBlind(flag, value) == [old |-> FALSE, new |-> value]

\* AtomicBool::swap(value, SeqCst): the value before and the value stored
Swap(flag, value) == [old |-> flag, new |-> value]

\* the test of the drain loop as it would be if the timeout were never reached
DrainTimedOutNever(elapsed, timeout) == FALSE

\* initiate_shutdown, line 231: drain_start.elapsed() > self.drain_timeout
DrainTimedOut(elapsed, timeout) == elapsed > timeout

NoShutdown == [pc |-> "idle", began |-> 0, drain_start |-> 0, wake |-> 0]

\* an initiate_shutdown call that returned: whether it was the one that
\* found shutting_down false, whether active_connections was 0 when it
\* returned, and the time from its start to its return
ShutdownReturn(task, first, zero, waited) ==
    [task |-> task, first |-> first, zero |-> zero, waited |-> waited]

\* LifecycleManager::new().with_drain_timeout(..)
LifecycleNew ==
    /\ lc_status = "Starting"
    /\ shutting_down = FALSE
    /\ active_connections = U64(0)
    /\ drain_timeout = DrainTimeout
    /\ lc_now = 0
    /\ lc_calls = [t \in LcTasks |-> NoShutdown]
    /\ shutdown_sends = 0
    /\ draining_sets = 0
    /\ conn_calls = [started |-> 0, finished |-> 0]
    /\ lc_returns = <<>>
    /\ receivers = <<>>

\* the clock moves on; a call that waits for the lock of the status gets it
\* by MaxStartTime
LcTick ==
    /\ lc_now < MaxLcTime
    /\ lc_now < MaxStartTime \/ \A t \in LcTasks : lc_calls[t].pc # "set_status"
    /\ lc_now' = lc_now + 1
    /\ UNCHANGED <<lc_status, shutting_down, active_connections, drain_timeout, lc_calls,
                   shutdown_sends, draining_sets, conn_calls, lc_returns>>
    /\ LifecycleOthers

\* set_status(status), by mark_ready and mark_unhealthy
SetStatus(status) ==
    /\ lc_status' = status
    /\ UNCHANGED <<shutting_down, active_connections, drain_timeout, lc_now, lc_calls,
                   shutdown_sends, draining_sets, conn_calls, lc_returns>>
    /\ LifecycleOthers

\* connection_started
ConnectionStarted ==
    /\ conn_calls.started < MaxStarted
    /\ active_connections' = IncBe(active_connections)
    /\ conn_calls' = [conn_calls EXCEPT !.started = @ + 1]
    /\ UNCHANGED <<lc_status, shutting_down, drain_timeout, lc_now, lc_calls,
                   shutdown_sends, draining_sets, lc_returns>>
    /\ LifecycleOthers

\* connection_finished
ConnectionFinished ==
    /\ conn_calls.finished < MaxFinished
    /\ active_connections' = DecBe(active_connections)
    /\ conn_calls' = [conn_calls EXCEPT !.finished = @ + 1]
    /\ UNCHANGED <<lc_status, shutting_down, drain_timeout, lc_now, lc_calls,
                   shutdown_sends, draining_sets, lc_returns>>
    /\ LifecycleOthers

\* the number of initiate_shutdown calls begun
ShutdownBegun == Len(lc_returns) + Cardinality({t \in LcTasks : lc_calls[t].pc # "idle"})

\* initiate_shutdown, lines 217-223: the swap of shutting_down; a call that
\* finds it true returns
ShutdownSwap(task) ==
    /\ lc_calls[task].pc = "idle"
    /\ ShutdownBegun < MaxShutdownCalls
    /\ lc_now <= MaxStartTime
    /\ LET swapped == Swap(shutting_down, TRUE) IN
       /\ shutting_down' = swapped.new
       /\ IF swapped.old
          THEN /\ lc_returns' = Append(lc_returns,
                      ShutdownReturn(task, FALSE, active_connections = U64(0), 0))
               /\ UNCHANGED lc_calls
          ELSE /\ lc_calls' = [lc_calls EXCEPT ![task] =
                      [NoShutdown EXCEPT !.pc = "set_status", !.began = lc_now]]
               /\ UNCHANGED lc_returns
    /\ UNCHANGED <<lc_status, active_connections, drain_timeout, lc_now,
                   shutdown_sends, draining_sets, conn_calls>>
    /\ LifecycleOthers

\* initiate_shutdown, lines 229-239: one turn of the drain loop at time
\* lc_now: the call returns or sleeps
DrainPoll(task, call) ==
    IF \/ active_connections = U64(0)
       \/ DrainTimedOut(lc_now - call.drain_start, drain_timeout)
    THEN /\ lc_calls' = [lc_calls EXCEPT ![task] = NoShutdown]
         /\ lc_returns' = Append(lc_returns,
                ShutdownReturn(task, TRUE, active_connections = U64(0), lc_now - call.began))
    ELSE /\ lc_calls' = [lc_calls EXCEPT ![task] =
                [call EXCEPT !.pc = "sleeping", !.wake = lc_now + 1]]
         /\ UNCHANGED lc_returns

\* initiate_shutdown, lines 223-238: with the lock of the status, the
\* status is set, the signal is sent and the drain loop is entered
ShutdownSetStatus(task) ==
    /\ lc_calls[task].pc = "set_status"
    /\ lc_status' = "Draining"
    /\ draining_sets' = draining_sets + 1
    /\ shutdown_sends' = shutdown_sends + 1
    /\ DrainPoll(task, [lc_calls[task] EXCEPT !.drain_start = lc_now])
    /\ UNCHANGED <<shutting_down, active_connections, drain_timeout, lc_now, conn_calls>>
    /\ LifecycleOthers

\* initiate_shutdown, lines 230-238: the sleep is over, the loop goes on
ShutdownWake(task) ==
    /\ lc_calls[task].pc = "sleeping"
    /\ lc_now >= lc_calls[task].wake
    /\ DrainPoll(task, lc_calls[task])
    /\ UNCHANGED <<lc_status, shutting_down, active_connections, drain_timeout, lc_now,
                   shutdown_sends, draining_sets, conn_calls>>
    /\ LifecycleOthers

LifecycleNext ==
    \/ LcTick
    \/ \E status \in {"Healthy", "Unhealthy"} : SetStatus(status)
    \/ ConnectionStarted
    \/ ConnectionFinished
    \/ \E task \in LcTasks : ShutdownSwap(task)
    \/ \E task \in LcTasks : ShutdownSetStatus(task)
    \/ \E task \in LcTasks : ShutdownWake(task)

\* the scheduling the termination of initiate_shutdown rests on: the clock
\* moves on and a task that can go on with its call does
LifecycleFairness ==
    /\ WF_vars(LcTick)
    /\ \A task \in LcTasks :
          /\ WF_vars(ShutdownSetStatus(task))
          /\ WF_vars(ShutdownWake(task))

(***************************************************************************)
(* Properties of the lifecycle manager                                     *)
(***************************************************************************)
\* the returned calls that had found shutting_down false
FirstReturns == {i \in DOMAIN lc_returns : lc_returns[i].first}

\* C18: whatever the number and the interleaving of the initiate_shutdown
\* calls, at most one of them goes past the swap of shutting_down, the
\* status is set to Draining by initiate_shutdown and the signal is sent at
\* most once, and exactly once by the time that call has returned or any
\* call has gone past the swap and taken the lock of the status
C18_SentOnce ==
    /\ shutdown_sends <= 1
    /\ draining_sets <= 1
    /\ shutdown_sends = draining_sets
    /\ Cardinality(FirstReturns) + Cardinality({t \in LcTasks : lc_calls[t].pc # "idle"}) <= 1
    /\ (FirstReturns # {} \/ \E t \in LcTasks : lc_calls[t].pc = "sleeping")
          => shutdown_sends = 1
    /\ shutdown_sends = 1 => shutting_down

\* three calls by two tasks have returned; the first to return was not the
\* one that sent the signal, which was sent once
C18_Witness ==
    /\ Len(lc_returns) = 3
    /\ ~lc_returns[1].first
    /\ FirstReturns # {}
    /\ shutdown_sends = 1

\* C19: no initiate_shutdown call returns while active_connections is not
\* 0 and drain_timeout has not elapsed since the call began
C19_ReturnsAfterDrain ==
    \A i \in DOMAIN lc_returns :
        lc_returns[i].zero \/ lc_returns[i].waited > drain_timeout

\* a call is inside initiate_shutdown
InShutdown(task) == lc_calls[task].pc # "idle"

\* C20: every initiate_shutdown call returns; the call that drains returns
\* with active_connections at 0 or, when connections are still active, be
\* it that they never finish or that new ones keep starting, after more
\* than drain_timeout has elapsed
C20_Terminates ==
    /\ \A task \in LcTasks : InShutdown(task) ~> ~InShutdown(task)
    /\ [](\A i \in FirstReturns :
              lc_returns[i].zero \/ lc_returns[i].waited > drain_timeout)

\* the draining call has returned after the timeout with one of two
\* connections still active
C20_Witness ==
    /\ \E i \in FirstReturns : ~lc_returns[i].zero /\ lc_returns[i].waited = DrainTimeout + 1
    /\ active_connections = U64(1)
    /\ conn_calls = [started |-> 2, finished |-> 1]

\* C22: active_connections is at least 0 and at most the number of
\* connection_started calls made, whatever the sequence of the
\* connection_started and connection_finished calls: it does not wrap
C22_CounterInRange == ~LessBe(U64(conn_calls.started), active_connections)

\* C23: once the status is Draining or Unhealthy, no step makes it Healthy
C23_Step == lc_status \in {"Draining", "Unhealthy"} => lc_status' # "Healthy"

C23_ReadinessLostForGood == [][C23_Step]_vars

(***************************************************************************)
(* ConnectionGuard: the connections of the LifecycleManager are counted    *)
(* by guards alone, created and dropped by the tasks of the connections.   *)
(***************************************************************************)
MaxGuards == 3          \* ConnectionGuard::new calls

GuardIds == 1..MaxGuards

\* shutdown_receiver: shutdown_tx.subscribe().  The receiver starts at the
\* tail of the channel: next is the number of values sent so far, and it is
\* handed the values sent from then on.
ShutdownReceiver ==
    /\ Len(receivers) < MaxReceivers
    /\ receivers' = Append(receivers, [next |-> shutdown_sends, observed |-> 0])
    /\ SignalOthers

\* ShutdownReceiver::recv by the task that holds receiver r: a value sent
\* since the receiver was made is taken; with none the task keeps waiting
Recv(r) ==
    /\ r \in DOMAIN receivers
    /\ receivers[r].next < shutdown_sends
    /\ receivers' = [receivers EXCEPT ![r] = [next |-> @.next + 1,
                                              observed |-> @.observed + 1]]
    /\ SignalOthers

SignalNext ==
    \/ LcTick
    \/ \E status \in {"Healthy", "Unhealthy"} : SetStatus(status)
    \/ ConnectionStarted
    \/ ConnectionFinished
    \/ \E task \in LcTasks : ShutdownSwap(task)
    \/ \E task \in LcTasks : ShutdownSetStatus(task)
    \/ \E task \in LcTasks : ShutdownWake(task)
    \/ ShutdownReceiver
    \/ \E r \in 1..MaxReceivers : Recv(r)

\* C38: once the signal of initiate_shutdown is sent, every receiver handed
\* out by shutdown_receiver, before the call or after it, has observed the
\* signal once or has it waiting to be observed
C38_SignalReachesAll ==
    shutdown_sends >= 1 =>
        \A r \in DOMAIN receivers :
            receivers[r].observed + (shutdown_sends - receivers[r].next) = 1

\* no guard exists when the manager is created
GuardsNew == guards = {}

\* ConnectionGuard::new: connection_started, then the guard exists
GuardNew(g) ==
    /\ g \notin guards
    /\ conn_calls.started < MaxGuards
    /\ active_connections' = IncBe(active_connections)
    /\ conn_calls' = [conn_calls EXCEPT !.started = @ + 1]
    /\ guards' = guards \cup {g}
    /\ UNCHANGED <<lc_status, shutting_down, drain_timeout, lc_now, lc_calls,
                   shutdown_sends, draining_sets, lc_returns>>
    /\ GuardOthers

\* the drop of a guard as it would be if it did not call connection_finished
GuardDropForgotten(g) ==
    /\ g \in guards
    /\ guards' = guards \ {g}
    /\ UNCHANGED lifecycleVars
    /\ GuardOthers

\* Drop for ConnectionGuard: connection_finished
GuardDrop(g) ==
    /\ g \in guards
    /\ active_connections' = DecBe(active_connections)
    /\ conn_calls' = [conn_calls EXCEPT !.finished = @ + 1]
    /\ guards' = guards \ {g}
    /\ UNCHANGED <<lc_status, shutting_down, drain_timeout, lc_now, lc_calls,
                   shutdown_sends, draining_sets, lc_returns>>
    /\ GuardOthers

GuardsNext ==
    \/ \E g \in GuardIds : GuardNew(g)
    \/ \E g \in GuardIds : GuardDrop(g)
    \/ LcTick
    \/ \E status \in {"Healthy", "Unhealthy"} : SetStatus(status)
    \/ \E task \in LcTasks : ShutdownSwap(task)
    \/ \E task \in LcTasks : ShutdownSetStatus(task)
    \/ \E task \in LcTasks : ShutdownWake(task)

\* C21: with the connections counted by guards alone, active_connections
\* is the number of guards alive, whatever the interleaving of the
\* creations and the drops, and so it is 0 when every guard is dropped
C21_CountsLiveGuards == active_connections = U64(Cardinality(guards))

\* every guard that was created has been dropped while a drain was waiting
\* for the connections
C21_Witness ==
    /\ guards = {}
    /\ conn_calls = [started |-> MaxGuards, finished |-> MaxGuards]
    /\ \E i \in DOMAIN lc_returns : lc_returns[i].first /\ lc_returns[i].zero
                                       /\ lc_returns[i].waited > 0

(***************************************************************************)
(* crates/proxy/src/pqc_server.rs: the task PqcProxyServer::run spawns for *)
(* a connection, and the peer of the connection.  What the peer has        *)
(* written is kept as byte counts: the bytes of the length prefix, the     *)
(* value the prefix holds once it is whole, and the bytes of the body.     *)
(* The peer writes and closes when it likes, or never.                     *)
(***************************************************************************)
MaxPqcConns == 2        \* connections accepted

PqcConns == 1..MaxPqcConns

\* the bytes of a HybridCiphertext that decapsulate accepts: 32 of the
\* X25519 key and those of an ML-KEM-768 ciphertext
HybridCiphertextLen == 1120

\* the bytes HybridCiphertext::from_bytes asks for
MinCiphertextLen == 32

\* the greatest ciphertext length the server reads
MaxCtLen == 10000

\* the values the peer puts in the length prefix
PqcLengths == {0, 16, HybridCiphertextLen, 4096, 4097, MaxCtLen, MaxCtLen + 1}

\* the bytes of a first, partial write of the body
PqcPartialBody == 16

\* PqcProxyServer::new
PqcServerNew ==
    /\ pqc_conns = <<>>
    /\ pqc_peer = <<>>
    /\ pqc_channel_counter = U64(1)

\* the task's return from inside the handshake: socket and server_state
\* are dropped
PqcReturn(conn) == [conn EXCEPT !.pc = "failed", !.secret_key = FALSE, !.socket = FALSE]

\* listener.accept and tokio::spawn
PqcAccept ==
    /\ Len(pqc_conns) < MaxPqcConns
    /\ pqc_conns' = Append(pqc_conns, [pc |-> "server_init", secret_key |-> FALSE,
                                       socket |-> TRUE, got_len |-> FALSE, ct_len |-> 0,
                                       allocated |-> FALSE, body_read |-> 0,
                                       channel_id |-> U64(0)])
    /\ pqc_peer' = Append(pqc_peer, [prefix |-> 0, len |-> 0, body |-> 0, closed |-> FALSE])
    /\ UNCHANGED pqc_channel_counter
    /\ PqcOthers

\* handshake.server_init, which does not fail
PqcServerInit(i) ==
    /\ i \in DOMAIN pqc_conns
    /\ pqc_conns[i].pc = "server_init"
    /\ pqc_conns' = [pqc_conns EXCEPT ![i].pc = "write_pk_len", ![i].secret_key = TRUE]
    /\ UNCHANGED <<pqc_peer, pqc_channel_counter>>
    /\ PqcOthers

\* socket.write_all of the public key length; a write fails only on a
\* connection the peer has closed
PqcWritePkLen(i, ok) ==
    /\ i \in DOMAIN pqc_conns
    /\ pqc_conns[i].pc = "write_pk_len"
    /\ ~ok => pqc_peer[i].closed
    /\ pqc_conns' = [pqc_conns EXCEPT ![i] = IF ok THEN [@ EXCEPT !.pc = "write_pk"]
                                                 ELSE PqcReturn(@)]
    /\ UNCHANGED <<pqc_peer, pqc_channel_counter>>
    /\ PqcOthers

\* socket.write_all of the public key
PqcWritePk(i, ok) ==
    /\ i \in DOMAIN pqc_conns
    /\ pqc_conns[i].pc = "write_pk"
    /\ ~ok => pqc_peer[i].closed
    /\ pqc_conns' = [pqc_conns EXCEPT ![i] = IF ok THEN [@ EXCEPT !.pc = "read_ct_len"]
                                                 ELSE PqcReturn(@)]
    /\ UNCHANGED <<pqc_peer, pqc_channel_counter>>
    /\ PqcOthers

\* the test of line 78
TooLarge(ct_len) == ct_len > MaxCtLen

\* socket.read_exact of the four bytes of the length returns: with the
\* bytes, when the peer has written them, or with an error, when the peer
\* closed before.  Then the test of the length and the allocation of
\* ct_bytes.
PqcReadCtLen(i) ==
    /\ i \in DOMAIN pqc_conns
    /\ pqc_conns[i].pc = "read_ct_len"
    /\ pqc_peer[i].prefix = 4 \/ pqc_peer[i].closed
    /\ pqc_conns' = [pqc_conns EXCEPT ![i] =
           IF pqc_peer[i].prefix < 4 THEN PqcReturn(@)
           ELSE LET ct_len == pqc_peer[i].len IN
                IF TooLarge(ct_len)
                THEN [PqcReturn(@) EXCEPT !.got_len = TRUE, !.ct_len = ct_len]
                ELSE [@ EXCEPT !.pc = "read_ct", !.got_len = TRUE, !.ct_len = ct_len,
                               !.allocated = TRUE]]
    /\ UNCHANGED <<pqc_peer, pqc_channel_counter>>
    /\ PqcOthers

\* socket.read_exact of the ciphertext returns: with ct_len bytes, when the
\* peer has written them, or with an error, when the peer closed before.
\* Then HybridCiphertext::from_bytes and handshake.server_complete, whose
\* decapsulate fails on an ML-KEM ciphertext of the wrong length.
PqcReadCt(i) ==
    /\ i \in DOMAIN pqc_conns
    /\ pqc_conns[i].pc = "read_ct"
    /\ LET conn == pqc_conns[i]
           whole == pqc_peer[i].body >= conn.ct_len
       IN  /\ whole \/ pqc_peer[i].closed
           /\ IF whole /\ conn.ct_len >= MinCiphertextLen /\ conn.ct_len = HybridCiphertextLen
              THEN /\ pqc_conns' = [pqc_conns EXCEPT ![i] =
                          [conn EXCEPT !.pc = "established", !.secret_key = FALSE,
                                       !.body_read = conn.ct_len,
                                       !.channel_id = pqc_channel_counter]]
                   /\ pqc_channel_counter' = FetchAdd(pqc_channel_counter)
              ELSE /\ pqc_conns' = [pqc_conns EXCEPT ![i] =
                          [PqcReturn(conn) EXCEPT !.body_read =
                               IF whole THEN conn.ct_len ELSE pqc_peer[i].body]]
                   /\ UNCHANGED pqc_channel_counter
    /\ UNCHANGED pqc_peer
    /\ PqcOthers

\* the peer writes n bytes of the length prefix, whose value is len
PeerWritePrefix(i, n, len) ==
    /\ i \in DOMAIN pqc_peer
    /\ ~pqc_peer[i].closed
    /\ pqc_peer[i].prefix + n <= 4
    /\ pqc_peer' = [pqc_peer EXCEPT ![i].prefix = @ + n,
                                    ![i].len = IF pqc_peer[i].prefix + n = 4 THEN len ELSE 0]
    /\ UNCHANGED <<pqc_conns, pqc_channel_counter>>
    /\ PqcOthers

\* the peer writes n bytes of the body it announced: a first part, or all
\* that is left
PeerWriteBody(i, n) ==
    /\ i \in DOMAIN pqc_peer
    /\ ~pqc_peer[i].closed
    /\ pqc_peer[i].prefix = 4
    /\ n > 0
    /\ \/ n = PqcPartialBody /\ pqc_peer[i].body = 0 /\ n < pqc_peer[i].len
       \/ n = pqc_peer[i].len - pqc_peer[i].body
    /\ pqc_peer' = [pqc_peer EXCEPT ![i].body = @ + n]
    /\ UNCHANGED <<pqc_conns, pqc_channel_counter>>
    /\ PqcOthers

\* the peer closes the connection
PeerClose(i) ==
    /\ i \in DOMAIN pqc_peer
    /\ ~pqc_peer[i].closed
    /\ pqc_peer' = [pqc_peer EXCEPT ![i].closed = TRUE]
    /\ UNCHANGED <<pqc_conns, pqc_channel_counter>>
    /\ PqcOthers

PqcNext ==
    \/ PqcAccept
    \/ \E i \in PqcConns : PqcServerInit(i)
    \/ \E i \in PqcConns, ok \in BOOLEAN : PqcWritePkLen(i, ok)
    \/ \E i \in PqcConns, ok \in BOOLEAN : PqcWritePk(i, ok)
    \/ \E i \in PqcConns : PqcReadCtLen(i)
    \/ \E i \in PqcConns : PqcReadCt(i)
    \/ \E i \in PqcConns, n \in {2, 4}, len \in PqcLengths : PeerWritePrefix(i, n, len)
    \/ \E i \in PqcConns, n \in {PqcPartialBody} \cup PqcLengths : PeerWriteBody(i, n)
    \/ \E i \in PqcConns : PeerClose(i)

\* the runtime runs a task that can take a step; nothing makes the peer
\* write or close
PqcFairness ==
    \A i \in PqcConns :
        /\ WF_vars(PqcServerInit(i))
        /\ WF_vars(\E ok \in BOOLEAN : PqcWritePkLen(i, ok))
        /\ WF_vars(\E ok \in BOOLEAN : PqcWritePk(i, ok))
        /\ WF_vars(PqcReadCtLen(i))
        /\ WF_vars(PqcReadCt(i))

(***************************************************************************)
(* Properties of the PQC server                                            *)
(***************************************************************************)
\* the handshake of connection i is over: failed, with the secret key
\* released and the transport closed, or established
PqcDone(i) ==
    /\ i \in DOMAIN pqc_conns
    /\ \/ pqc_conns[i].pc = "established"
       \/ pqc_conns[i].pc = "failed" /\ ~pqc_conns[i].secret_key /\ ~pqc_conns[i].socket

\* C25: every handshake the server starts terminates, whatever the peer
\* does: also when the peer writes nothing after the public key was written
C25_HandshakeTerminates ==
    \A i \in PqcConns : (i \in DOMAIN pqc_conns) ~> PqcDone(i)

\* C26: a connection whose length prefix is above 4096 is closed with no
\* buffer allocated and none of the body read
C26_ClosedAbove4KiB ==
    \A i \in DOMAIN pqc_conns :
        (pqc_conns[i].got_len /\ pqc_conns[i].ct_len > 4096)
            => /\ pqc_conns[i].pc = "failed"
               /\ ~pqc_conns[i].allocated
               /\ pqc_conns[i].body_read = 0

(***************************************************************************)
(* The specifications.  Each starts all the subsystems and runs one.       *)
(***************************************************************************)
StreamSpecInit ==
    /\ StreamInit /\ HandshakeInit /\ CipherInit /\ MtlsNew(FALSE) /\ GreenWaitNew(TRUE)
    /\ RouterNew /\ FetchNew /\ LifecycleNew /\ GuardsNew /\ PqcServerNew

SpecStream == StreamSpecInit /\ [][StreamNext]_vars

StreamAdvSpecInit ==
    /\ StreamAdvInit /\ HandshakeInit /\ CipherInit /\ MtlsNew(FALSE) /\ GreenWaitNew(TRUE)
    /\ RouterNew /\ FetchNew /\ LifecycleNew /\ GuardsNew /\ PqcServerNew

SpecStreamEof == StreamSpecInit /\ [][StreamEofNext]_vars

SpecStreamAdv == StreamAdvSpecInit /\ [][StreamAdvNext]_vars

SpecStreamInject == StreamAdvSpecInit /\ [][StreamInjectNext]_vars

SpecHandshake == StreamSpecInit /\ [][HandshakeNext]_vars

SpecOneHandler == StreamSpecInit /\ [][OneHandlerNext]_vars

SpecCipher == StreamSpecInit /\ [][CipherNext]_vars

CipherWornInit ==
    /\ StreamInit /\ HandshakeInit /\ CipherWorn /\ MtlsNew(FALSE) /\ GreenWaitNew(TRUE)
    /\ RouterNew /\ FetchNew /\ LifecycleNew /\ GuardsNew /\ PqcServerNew

SpecCipherWorn == CipherWornInit /\ [][CipherNext]_vars

MtlsInit ==
    /\ StreamInit /\ HandshakeInit /\ CipherInit /\ GreenWaitNew(TRUE)
    /\ RouterNew /\ FetchNew /\ LifecycleNew /\ GuardsNew /\ PqcServerNew
    /\ \E require \in BOOLEAN : MtlsNew(require)

SpecMtls == MtlsInit /\ [][MtlsNext]_vars

GreenWaitInit ==
    /\ StreamInit /\ HandshakeInit /\ CipherInit /\ MtlsNew(FALSE)
    /\ RouterNew /\ FetchNew /\ LifecycleNew /\ GuardsNew /\ PqcServerNew
    /\ \E enabled \in BOOLEAN : GreenWaitNew(enabled)

SpecGreenWait == GreenWaitInit /\ [][GreenWaitNext]_vars

SpecGreenStale == GreenWaitInit /\ [][GreenStaleNext]_vars

SpecGreenWaitFair == GreenWaitInit /\ [][GreenWaitNext]_vars /\ GreenWaitFairness

GreenSweepInit ==
    /\ StreamInit /\ HandshakeInit /\ CipherInit /\ MtlsNew(FALSE) /\ GreenSweepNew
    /\ RouterNew /\ FetchNew /\ LifecycleNew /\ GuardsNew /\ PqcServerNew

SpecGreenSweep == GreenSweepInit /\ [][GreenSweepNext]_vars

SpecRouter == StreamSpecInit /\ [][RouterNext]_vars

SpecFetch == StreamSpecInit /\ [][FetchNext]_vars

SpecLifecycle == StreamSpecInit /\ [][LifecycleNext]_vars

SpecShutdownSignal == StreamSpecInit /\ [][SignalNext]_vars

SpecLifecycleFair == StreamSpecInit /\ [][LifecycleNext]_vars /\ LifecycleFairness

SpecGuards == StreamSpecInit /\ [][GuardsNext]_vars

SpecPqcServer == StreamSpecInit /\ [][PqcNext]_vars

SpecPqcServerFair == StreamSpecInit /\ [][PqcNext]_vars /\ PqcFairness

Spec == SpecStream

====
